---- MODULE Spec2Model ----
(***************************************************************************)
(* A model of the membership and synchronisation engine of server-farm:    *)
(* the node registry and its merge rules, per-peer sync cursors, the       *)
(* signed peer RPC handlers, the outbound sync exchanges with their        *)
(* suspension points, and the main-loop scheduler with failover.           *)
(*                                                                         *)
(* Documents are modelled as the JSON values the code stores: a dict is a  *)
(* function from its keys, a record may lack a field (dict.get with a      *)
(* default is Get below), a list is a sequence.                            *)
(***************************************************************************)
EXTENDS Integers, Sequences, FiniteSets, TLC

VARIABLES
    \* ---- algebra of the merge functions (pure functions, inputs drawn by Init)
    algIn,        \* the documents x, y, z handed to the merge
    algOut,       \* the results of the merges, once they are applied
    mrgIn,        \* the states, chat or snippets documents x, y, z
    mrgOut,       \* the results of merging them, once the merge is applied
    \* ---- the chat and snippets documents of one node under their writers
    docNow,       \* the node's wall clock
    docStore,     \* the node's documents
    docOps,       \* the writes done so far
    docReq,       \* the sync request the last step handled, if it was one
    \* ---- one node joining a network
    joinNow,      \* the node's wall clock
    joinNodes,    \* nodes.json of the node
    joinPoll,     \* PeerService._join_status and _join_target_id
    joinPeer,     \* nodes.json of the target b and its answer to the last poll
    \* ---- signed peer RPC at one node
    authNodes,    \* nodes.json of the verifying node
    authNow,      \* wall clock of the verifying node
    wire,         \* requests an observer of the network holds (sent at least once)
    accepted,     \* the request whose handler is running
    \* ---- the signed endpoints of one node, each with all that it writes
    gateNow,      \* wall clock of the node
    gateStore,    \* its documents, its relay task queue, what its chat hub sent
    gateLast,     \* the request delivered last and the answer it got
    \* ---- NodeIdentity of one node under promote and demote
    idn,          \* its mode fields, its record in nodes.json, the clock
    \* ---- the ChatHub of one node
    chatHub,      \* its subscribers and the broadcasts that are under way
    \* ---- the FileStore of one node under the threads that call it
    fsStore,      \* the files, FileStore._locks and the holder of _global_lock
    fsCalls,      \* thread -> its call of update or write and how far it is
    \* ---- the operator's endpoints and the join endpoints of the nodes
    opNow,        \* the wall clock the nodes share
    opNodes,      \* node id -> its nodes.json, empty for a node that is not running
    opLast,       \* the call handled last and its answer
    \* ---- delta responses of the inbound handlers (inputs drawn by Init)
    dIn,          \* the stored documents and the request
    dOut,         \* the stored documents and the response after the handler
    \* ---- one node: its documents, cursors and outbound exchanges
    clock,        \* the node's wall clock
    identity,     \* NodeIdentity: mode and connectable of the node
    docs,         \* nodes.json, states.json, chat.json, snippets.json
    sync_meta,    \* sync_meta.json: peer id -> last_sync_time
    exch,         \* the outbound exchanges awaiting their HTTP response
    scenario,     \* what happens around the exchanges in this run
    \* ---- the scheduler of PeerService
    mode,               \* NodeIdentity._mode
    connectable,        \* NodeIdentity._connectable
    tasks,              \* the main-loop tasks created so far
    sync_task,          \* PeerService._sync_task, 0 for None
    heartbeat_failures, \* PeerService._heartbeat_failures
    watchers,           \* the live _watch_full_recovery tasks
    restarts,           \* the calls of restart_sync
    last_round,         \* the round a loop finished in the last step, if any
    self_record_mode,   \* the mode field of the node's own record in nodes.json
    \* ---- two nodes that sync with each other
    netNow,       \* the wall clock the nodes share
    netDocs,      \* node id -> its four documents
    netMeta,      \* node id -> its sync_meta.json
    netChanges,   \* the local changes and failures still to come
    netDue        \* the nodes whose gossip loop has a round due

algVars   == <<algIn, algOut>>
authVars  == <<authNodes, authNow, wire, accepted>>
deltaVars == <<dIn, dOut>>
gateVars  == <<gateNow, gateStore, gateLast>>
opVars    == <<opNow, opNodes, opLast>>
fsVars    == <<fsStore, fsCalls>>
idVars    == <<idn>>
hubVars   == <<chatHub>>
mrgVars   == <<mrgIn, mrgOut>>
docVars   == <<docNow, docStore, docOps, docReq>>
joinVars  == <<joinNow, joinNodes, joinPoll, joinPeer>>
regVars   == <<clock, identity, docs, sync_meta, exch, scenario>>
schedVars == <<mode, connectable, tasks, sync_task, heartbeat_failures,
               watchers, restarts, last_round, self_record_mode>>
netVars   == <<netNow, netDocs, netMeta, netChanges, netDue>>
vars      == <<algIn, algOut, mrgIn, mrgOut, docNow, docStore, docOps, docReq,
               joinNow, joinNodes, joinPoll, joinPeer,
               authNodes, authNow, wire, accepted, dIn, dOut,
               gateNow, gateStore, gateLast, opNow, opNodes, opLast,
               fsStore, fsCalls, idn, chatHub,
               clock, identity, docs, sync_meta, exch, scenario,
               mode, connectable, tasks, sync_task, heartbeat_failures,
               watchers, restarts, last_round, self_record_mode,
               netNow, netDocs, netMeta, netChanges, netDue>>

\* what a step of one part of the model leaves alone
AlgOnly   == UNCHANGED <<idVars, hubVars, fsVars, opVars, gateVars, joinVars, docVars, mrgVars, authVars, deltaVars, regVars, schedVars, netVars>>
AuthOnly  == UNCHANGED <<idVars, hubVars, fsVars, opVars, gateVars, joinVars, docVars, mrgVars, algVars, deltaVars, regVars, schedVars, netVars>>
DeltaOnly == UNCHANGED <<idVars, hubVars, fsVars, opVars, gateVars, joinVars, docVars, mrgVars, algVars, authVars, regVars, schedVars, netVars>>
RegOnly   == UNCHANGED <<idVars, hubVars, fsVars, opVars, gateVars, joinVars, docVars, mrgVars, algVars, authVars, deltaVars, schedVars, netVars>>
SchedOnly == UNCHANGED <<idVars, hubVars, fsVars, opVars, gateVars, joinVars, docVars, mrgVars, algVars, authVars, deltaVars, regVars, netVars>>
DocOnly   == UNCHANGED <<idVars, hubVars, fsVars, opVars, gateVars, joinVars, mrgVars, algVars, authVars, deltaVars, regVars,
                         schedVars, netVars>>
PollOnly  == UNCHANGED <<idVars, hubVars, fsVars, opVars, gateVars, docVars, mrgVars, algVars, authVars, deltaVars,
                         regVars, schedVars, netVars>>
JoinOnly  == PollOnly /\ UNCHANGED joinPeer
MrgOnly   == UNCHANGED <<idVars, hubVars, fsVars, opVars, gateVars, joinVars, docVars, algVars, authVars, deltaVars, regVars, schedVars,
                         netVars>>
GateOnly  == UNCHANGED <<idVars, hubVars, fsVars, opVars, joinVars, docVars, mrgVars, algVars, authVars, deltaVars, regVars,
                         schedVars, netVars>>
OpOnly    == UNCHANGED <<idVars, hubVars, fsVars, gateVars, joinVars, docVars, mrgVars, algVars, authVars, deltaVars,
                         regVars, schedVars, netVars>>
NetOnly   == UNCHANGED <<idVars, hubVars, fsVars, opVars, gateVars, joinVars, docVars, mrgVars, algVars, authVars, deltaVars, regVars, schedVars>>

(***************************************************************************)
(* JSON helpers                                                            *)
(***************************************************************************)
\* dict.get(key, default)
Get(d, key, default) == IF key \in DOMAIN d THEN d[key] ELSE default

\* d with d[key] = value (the key added when missing)
Put(d, key, value) ==
    [k \in DOMAIN d \cup {key} |-> IF k = key THEN value ELSE d[k]]

\* d without key
Drop(d, key) == [k \in DOMAIN d \ {key} |-> d[k]]

EmptyDoc == [k \in {} |-> 0]

(***************************************************************************)
(* models/node.py: TrustStatus (src/core/node.py imports it)               *)
(***************************************************************************)
SELF             == "self"
PENDING          == "pending"
TRUSTED          == "trusted"
WAITING_APPROVAL == "waiting_approval"
KICKED           == "kicked"

(***************************************************************************)
(* PeerService._merge_nodes                                                *)
(***************************************************************************)
\* the record stored for a key the local registry does not hold
merge_nodes_new(remote_info) ==
    IF Get(remote_info, "trust_status", "") = SELF
    THEN Put(remote_info, "trust_status", TRUSTED)
    ELSE remote_info

\* the trust rules alone: between two records that are both trusted, or both
\* pending, the local one stays whatever the registered_at stamps are
merge_nodes_trust_only(local_info, remote_info) ==
    LET local_trust  == Get(local_info, "trust_status", "")
        remote_trust == Get(remote_info, "trust_status", "")
    IN  IF local_trust = SELF THEN local_info
        ELSE IF remote_trust = KICKED
             THEN IF local_trust # KICKED THEN remote_info ELSE local_info
        ELSE IF local_trust = KICKED THEN local_info
        ELSE IF remote_trust = TRUSTED /\ local_trust \in {PENDING, WAITING_APPROVAL}
             THEN remote_info
        ELSE local_info

\* the timestamp rule without the old_trust write-back: a newer remote record
\* is adopted with the trust status it arrives with
merge_nodes_adopts_newer(local_info, remote_info) ==
    LET local_trust  == Get(local_info, "trust_status", "")
        remote_trust == Get(remote_info, "trust_status", "")
        as_trusted   == IF remote_trust = SELF
                        THEN Put(remote_info, "trust_status", TRUSTED)
                        ELSE remote_info
    IN  IF local_trust = SELF THEN local_info
        ELSE IF remote_trust = KICKED
             THEN IF local_trust # KICKED THEN remote_info
                  ELSE IF Get(remote_info, "kicked_at", 0) > Get(local_info, "kicked_at", 0)
                       THEN remote_info
                       ELSE local_info
        ELSE IF local_trust = KICKED THEN local_info
        ELSE IF remote_trust = TRUSTED /\ local_trust = PENDING THEN remote_info
        ELSE IF remote_trust = TRUSTED /\ local_trust = WAITING_APPROVAL THEN remote_info
        ELSE IF Get(remote_info, "registered_at", 0) > Get(local_info, "registered_at", 0)
             THEN remote_info
             ELSE local_info

\* the record stored for a key the local registry already holds
merge_nodes_existing(local_info, remote_info) ==
    LET local_trust  == Get(local_info, "trust_status", "")
        remote_trust == Get(remote_info, "trust_status", "")
        \* a remote self is treated as trusted for the timestamp rule
        as_trusted   == IF remote_trust = SELF
                        THEN Put(remote_info, "trust_status", TRUSTED)
                        ELSE remote_info
    IN  IF local_trust = SELF THEN local_info
        ELSE IF remote_trust = KICKED
             THEN IF local_trust # KICKED THEN remote_info
                  ELSE IF Get(remote_info, "kicked_at", 0) > Get(local_info, "kicked_at", 0)
                       THEN remote_info
                       ELSE local_info
        ELSE IF local_trust = KICKED THEN local_info
        ELSE IF remote_trust = TRUSTED /\ local_trust = PENDING THEN remote_info
        ELSE IF remote_trust = TRUSTED /\ local_trust = WAITING_APPROVAL THEN remote_info
        ELSE IF Get(as_trusted, "registered_at", 0) > Get(local_info, "registered_at", 0)
             THEN \* old_trust is local_trust; "" and a missing field are falsy
                  IF local_trust # "" /\ remote_trust \notin {KICKED, TRUSTED}
                  THEN Put(as_trusted, "trust_status", local_trust)
                  ELSE as_trusted
             ELSE local_info

\* merged = dict(local); each remote key is handled on its own
merge_nodes(local, remote) ==
    [k \in DOMAIN local \cup DOMAIN remote |->
        IF k \notin DOMAIN remote THEN local[k]
        ELSE IF k \notin DOMAIN local THEN merge_nodes_new(remote[k])
        ELSE merge_nodes_existing(local[k], remote[k])]

(***************************************************************************)
(* PeerService._merge_states, _merge_chat, _merge_snippets                 *)
(***************************************************************************)
merge_states(local, remote) ==
    [k \in DOMAIN local \cup DOMAIN remote |->
        IF k \notin DOMAIN remote THEN local[k]
        ELSE IF k \notin DOMAIN local THEN remote[k]
        ELSE IF Get(remote[k], "last_seen", 0) > Get(local[k], "last_seen", 0)
             THEN remote[k]
             ELSE local[k]]

Front(seq) == SubSeq(seq, 1, Len(seq) - 1)
Last(seq)  == seq[Len(seq)]

\* list.sort(key=lambda e: e.get(field, 0)): a stable sort, entries of
\* equal keys stay in the order they had
SortByField(seq, field) ==
    LET Before(a, b) == Get(a, field, 0) < Get(b, field, 0)
    IN  SortSeq(seq, Before)

\* the first message of each non-empty id, in the order met: those of the
\* first half, then those of the second half whose id the first half lacks
RECURSIVE DedupeById(_)
DedupeById(seq) ==
    IF Len(seq) = 0 THEN <<>>
    ELSE IF Len(seq) = 1
         THEN IF Get(seq[1], "id", "") # "" THEN seq ELSE <<>>
    ELSE LET half   == Len(seq) \div 2
             front  == DedupeById(SubSeq(seq, 1, half))
             back   == DedupeById(SubSeq(seq, half + 1, Len(seq)))
             seen   == {Get(front[i], "id", "") : i \in DOMAIN front}
             New(m) == Get(m, "id", "") \notin seen
         IN  front \o SelectSeq(back, New)

max_messages == 500

\* the slice messages[:n]: the head of the list instead of its tail
KeepFirst(seq, n) ==
    IF Len(seq) > n THEN SubSeq(seq, 1, n) ELSE seq

\* merged[-max_messages:]
KeepLast(seq, n) ==
    IF Len(seq) > n THEN SubSeq(seq, Len(seq) - n + 1, Len(seq)) ELSE seq

merge_chat(local, remote) ==
    KeepLast(SortByField(DedupeById(local \o remote), "timestamp"), max_messages)

\* snippets_map, a dict in insertion order, as the sequence of its values
IndexOfId(acc, id) ==
    IF \E i \in DOMAIN acc : Get(acc[i], "id", "") = id
    THEN CHOOSE i \in DOMAIN acc : Get(acc[i], "id", "") = id
    ELSE 0

RECURSIVE SnippetsMapLocal(_)
SnippetsMapLocal(local) ==
    IF local = <<>> THEN <<>>
    ELSE LET acc == SnippetsMapLocal(Front(local))
             s   == Last(local)
             sid == Get(s, "id", "")
             i   == IndexOfId(acc, sid)
         IN  IF sid = "" THEN acc
             ELSE IF i = 0 THEN Append(acc, s)
             ELSE [acc EXCEPT ![i] = s]

RECURSIVE SnippetsMapRemote(_, _)
SnippetsMapRemote(map, remote) ==
    IF remote = <<>> THEN map
    ELSE LET acc == SnippetsMapRemote(map, Front(remote))
             s   == Last(remote)
             sid == Get(s, "id", "")
             i   == IndexOfId(acc, sid)
         IN  IF sid = "" THEN acc
             ELSE IF i = 0 THEN Append(acc, s)
             ELSE IF Get(s, "updated_at", 0) > Get(acc[i], "updated_at", 0)
                  THEN [acc EXCEPT ![i] = s]
                  ELSE acc

merge_snippets(local, remote) ==
    SortByField(SnippetsMapRemote(SnippetsMapLocal(local), remote), "created_at")

(***************************************************************************)
(* PeerService._filter_*_since                                             *)
(***************************************************************************)
\* the nodes filter with >= in the place of >
filter_nodes_since_inclusive(nodes, since) ==
    IF since <= 0 THEN nodes
    ELSE [k \in {n \in DOMAIN nodes : Get(nodes[n], "registered_at", 0) >= since}
            |-> nodes[k]]

filter_nodes_since(nodes, since) ==
    IF since <= 0 THEN nodes
    ELSE [k \in {n \in DOMAIN nodes : Get(nodes[n], "registered_at", 0) > since}
            |-> nodes[k]]

filter_states_since(states, since) ==
    IF since <= 0 THEN states
    ELSE [k \in {n \in DOMAIN states : Get(states[n], "last_seen", 0) > since}
            |-> states[k]]

InChatDelta(msg, since) == Get(msg, "timestamp", 0) > since

filter_chat_since(chat, since) ==
    IF since <= 0 THEN chat
    ELSE LET Newer(msg) == InChatDelta(msg, since) IN SelectSeq(chat, Newer)

InSnippetsDelta(snippet, since) == Get(snippet, "updated_at", 0) > since

filter_snippets_since(snippets, since) ==
    IF since <= 0 THEN snippets
    ELSE LET Newer(snippet) == InSnippetsDelta(snippet, since)
         IN  SelectSeq(snippets, Newer)

(***************************************************************************)
(* Algebra of the nodes merge: Init draws the registries, the action       *)
(* applies the merge in both orders and both groupings.                    *)
(***************************************************************************)
MaxTs == 2

AlgKeys  == {"b"}
AlgNames == {"n1", "n2"}

AlgRecords ==
    [trust_status : {PENDING, WAITING_APPROVAL, TRUSTED},
     registered_at : 1..MaxTs, name : AlgNames]
    \cup
    [trust_status : {KICKED}, registered_at : 1..MaxTs,
     kicked_at : 1..MaxTs, name : AlgNames]

AlgDocs == {EmptyDoc} \cup UNION {[{k} -> AlgRecords] : k \in AlgKeys}

AlgIdle ==
    [done |-> FALSE, xy |-> EmptyDoc, yx |-> EmptyDoc,
     xy_z |-> EmptyDoc, x_yz |-> EmptyDoc]

InitAlg ==
    /\ algIn \in [x : AlgDocs, y : AlgDocs, z : AlgDocs]
    /\ algOut = AlgIdle

ApplyMergeNodes ==
    /\ ~algOut.done
    /\ algOut' = [done |-> TRUE,
                  xy   |-> merge_nodes(algIn.x, algIn.y),
                  yx   |-> merge_nodes(algIn.y, algIn.x),
                  xy_z |-> merge_nodes(merge_nodes(algIn.x, algIn.y), algIn.z),
                  x_yz |-> merge_nodes(algIn.x, merge_nodes(algIn.y, algIn.z))]
    /\ UNCHANGED algIn
    /\ AlgOnly

(***************************************************************************)
(* Trust rules of the nodes merge: Init draws a local registry x, whose    *)
(* record may be the local self record, and a remote registry y, whose     *)
(* record may carry any trust_status, self and none included; the action   *)
(* is ApplyMergeNodes and xy is what _merge_nodes(local, remote) returns.  *)
(***************************************************************************)
TrustLocalRecords ==
    [trust_status : {PENDING, WAITING_APPROVAL, TRUSTED, SELF},
     registered_at : 1..MaxTs, name : AlgNames]
    \cup
    [trust_status : {KICKED}, registered_at : 1..MaxTs,
     kicked_at : 1..MaxTs, name : AlgNames]

TrustRemoteRecords ==
    TrustLocalRecords \cup [registered_at : 1..MaxTs, name : AlgNames]

TrustLocalDocs  == {EmptyDoc} \cup UNION {[{k} -> TrustLocalRecords] : k \in AlgKeys}
TrustRemoteDocs == {EmptyDoc} \cup UNION {[{k} -> TrustRemoteRecords] : k \in AlgKeys}

InitTrust ==
    /\ algIn \in [x : TrustLocalDocs, y : TrustRemoteDocs, z : {EmptyDoc}]
    /\ algOut = AlgIdle

(***************************************************************************)
(* Algebra of the states, chat and snippets merges: Init draws three       *)
(* documents of one kind, the action of that kind applies the merge in     *)
(* both orders and both groupings.  A state record may differ from         *)
(* another of the same last_seen in its status, as _mark_node_offline      *)
(* leaves it.                                                              *)
(***************************************************************************)
MrgStateRecords ==
    [node_id : {"b"}, status : {"online", "offline"}, last_seen : 1..MaxTs]

MrgStateDocs == {EmptyDoc} \cup [{"b"} -> MrgStateRecords]

MrgMessages == [id : {"m1", "m2"}, timestamp : 1..MaxTs]

MrgChatDocs == {<<>>} \cup {<<m>> : m \in MrgMessages}

MrgSnippets ==
    [id : {"s1"}, created_at : {1}, updated_at : 1..MaxTs,
     title : {"t1", "t2"}]

MrgSnippetDocs == {<<>>} \cup {<<s>> : s \in MrgSnippets}

MrgIdle(empty) ==
    [done |-> FALSE, xy |-> empty, yx |-> empty, xy_z |-> empty, x_yz |-> empty]

InitMrg ==
    /\ \/ mrgIn \in [kind : {"states"}, x : MrgStateDocs, y : MrgStateDocs,
                      z : MrgStateDocs]
       \/ mrgIn \in [kind : {"chat"}, x : MrgChatDocs, y : MrgChatDocs,
                      z : MrgChatDocs]
       \/ mrgIn \in [kind : {"snippets"}, x : MrgSnippetDocs, y : MrgSnippetDocs,
                      z : MrgSnippetDocs]
    /\ mrgOut = MrgIdle(IF mrgIn.kind = "states" THEN EmptyDoc ELSE <<>>)

ApplyMergeStates ==
    /\ mrgIn.kind = "states"
    /\ ~mrgOut.done
    /\ mrgOut' = [done |-> TRUE,
                  xy   |-> merge_states(mrgIn.x, mrgIn.y),
                  yx   |-> merge_states(mrgIn.y, mrgIn.x),
                  xy_z |-> merge_states(merge_states(mrgIn.x, mrgIn.y), mrgIn.z),
                  x_yz |-> merge_states(mrgIn.x, merge_states(mrgIn.y, mrgIn.z))]
    /\ UNCHANGED mrgIn
    /\ MrgOnly

ApplyMergeChat ==
    /\ mrgIn.kind = "chat"
    /\ ~mrgOut.done
    /\ mrgOut' = [done |-> TRUE,
                  xy   |-> merge_chat(mrgIn.x, mrgIn.y),
                  yx   |-> merge_chat(mrgIn.y, mrgIn.x),
                  xy_z |-> merge_chat(merge_chat(mrgIn.x, mrgIn.y), mrgIn.z),
                  x_yz |-> merge_chat(mrgIn.x, merge_chat(mrgIn.y, mrgIn.z))]
    /\ UNCHANGED mrgIn
    /\ MrgOnly

ApplyMergeSnippets ==
    /\ mrgIn.kind = "snippets"
    /\ ~mrgOut.done
    /\ mrgOut' = [done |-> TRUE,
                  xy   |-> merge_snippets(mrgIn.x, mrgIn.y),
                  yx   |-> merge_snippets(mrgIn.y, mrgIn.x),
                  xy_z |-> merge_snippets(merge_snippets(mrgIn.x, mrgIn.y),
                                          mrgIn.z),
                  x_yz |-> merge_snippets(mrgIn.x,
                                          merge_snippets(mrgIn.y, mrgIn.z))]
    /\ UNCHANGED mrgIn
    /\ MrgOnly

NextMrg ==
    \/ ApplyMergeStates
    \/ ApplyMergeChat
    \/ ApplyMergeSnippets

(***************************************************************************)
(* Signed peer RPC: NodeIdentity.sign_request / verify_signature and the   *)
(* endpoint guard _verify_node_signature, at the verifying node "a".       *)
(*                                                                         *)
(* sha256 is collision free: the digest of a body is a token naming it.    *)
(* A secp256k1 signature verifies under a public key exactly when it was   *)
(* made with the matching private key over the same message: a signature   *)
(* is the pair of the key and the message, and only the holder of a key    *)
(* makes signatures with it.                                               *)
(***************************************************************************)
LocalId == "a"
MAX_AGE == 60

\* X-Node-Ts as float() reads it: a number, nan, or the header missing
TsNum(v)  == [kind |-> "num", val |-> v]
TsNan     == [kind |-> "nan", val |-> 0]
TsMissing == [kind |-> "missing", val |-> 0]

Abs(i) == IF i < 0 THEN -i ELSE i

\* abs(time.time() - ts) > max_age; every comparison with nan is False
TooOld(now, ts) == ts.kind = "num" /\ Abs(now - ts.val) > MAX_AGE

PublicKeyOf(id) ==
    CASE id = "a" -> "ka" [] id = "b" -> "kb" [] id = "c" -> "kc" [] OTHER -> ""

AuthBodyIds == {"b", "d"}
AuthBodies  == [node_id : AuthBodyIds]

NoHash        == [present |-> FALSE, of |-> [node_id |-> ""]]
Sha256(body)  == [present |-> TRUE, of |-> body]

\* json.dumps({"node_id", "timestamp", "body_hash"}, sort_keys=True)
SignMessage(node_id, timestamp, body_hash) ==
    [body_hash |-> body_hash, node_id |-> node_id, timestamp |-> timestamp]

NoSig == [present |-> FALSE, key |-> "",
          msg |-> SignMessage("", TsMissing, NoHash)]
Signature(key, msg) == [present |-> TRUE, key |-> key, msg |-> msg]

\* NodeIdentity.sign_request: the headers for body, signed at time now
sign_request(node_id, body, now) ==
    [id   |-> node_id,
     ts   |-> TsNum(now),
     hash |-> Sha256(body),
     sig  |-> Signature(PublicKeyOf(node_id),
                        SignMessage(node_id, TsNum(now), Sha256(body)))]

\* NodeIdentity.verify_signature
verify_signature(node_id, timestamp, body_hash, signature, public_key, now) ==
    /\ timestamp.kind # "missing"
    /\ ~TooOld(now, timestamp)
    /\ signature.present
    /\ signature.key = public_key
    /\ signature.msg = SignMessage(node_id, timestamp, body_hash)

\* the id _verify_node_signature looks up: the header, else the body's node_id
remote_node_id(req) ==
    IF req.id # "" THEN req.id ELSE Get(req.body, "node_id", "")

\* api/v1/peer.py _verify_node_signature: "ok" or the reason of the 403
verify_node_signature(req, nodes, now) ==
    LET id    == remote_node_id(req)
        trust == Get(nodes[id], "trust_status", "")
    IN  IF id = "" THEN "no node id"
        ELSE IF req.ts.kind = "missing" \/ ~req.hash.present \/ ~req.sig.present
             THEN "no signature headers"
        ELSE IF req.hash # Sha256(req.body) THEN "body hash mismatch"
        ELSE IF id \notin DOMAIN nodes THEN "unknown node"
        ELSE IF trust = KICKED THEN "kicked"
        ELSE IF trust \notin {TRUSTED, SELF} THEN "not trusted"
        ELSE IF Get(nodes[id], "public_key", "") = "" THEN "no public key"
        ELSE IF ~verify_signature(id, req.ts, req.hash, req.sig,
                                  nodes[id].public_key, now)
             THEN "bad signature"
        ELSE "ok"

(***************************************************************************)
(* The signed endpoints of node "a": peer_sync, peer_heartbeat, chat_push. *)
(* The registry holds "a" itself, the trusted peer "b" and a node "c" that *)
(* asked to join or was kicked; "d" has no record.  A request is sent by   *)
(* "b" running sign_request, or made by a holder of a key ("b" or "c")     *)
(* signing fields of its choice; anyone on the network may change the      *)
(* headers or the body of a request it saw and deliver it at any time.     *)
(* The bodies carry no deltas, so that handle_sync and chat_push store     *)
(* what was stored.                                                        *)
(***************************************************************************)
MaxNow == 61

TickSteps  == {MAX_AGE, MAX_AGE + 1}
AuthTimes  == {t \in 0..MaxNow : t = 0 \/ \E d \in TickSteps : t = d}
KeyHolders == {"b", "c"}
Endpoints  == {"sync", "heartbeat", "chat-push"}

AuthRecord(id, trust) ==
    [node_id |-> id, name |-> id, mode |-> "full", connectable |-> TRUE,
     host |-> id, registered_at |-> 0, public_key |-> PublicKeyOf(id),
     trust_status |-> trust]

NoRequest ==
    [id |-> "", ts |-> TsMissing, hash |-> NoHash, sig |-> NoSig,
     body |-> [node_id |-> ""]]

Request(headers, body) ==
    [id |-> headers.id, ts |-> headers.ts, hash |-> headers.hash,
     sig |-> headers.sig, body |-> body]

NotAccepted ==
    [present |-> FALSE, endpoint |-> "", req |-> NoRequest, at |-> 0,
     verified_id |-> "", relay_id |-> ""]

InitAuth ==
    /\ \E trust_c \in {PENDING, KICKED} :
          authNodes = [id \in {"a", "b", "c"} |->
                         AuthRecord(id, CASE id = "a" -> SELF
                                          [] id = "b" -> TRUSTED
                                          [] OTHER    -> trust_c)]
    /\ authNow = 0
    /\ wire = [present |-> FALSE, req |-> NoRequest]
    /\ accepted = NotAccepted

\* PeerService._make_signed_request_args at "b": the payload names the sender
AuthSend ==
    /\ ~accepted.present
    /\ LET body == [node_id |-> "b"]
       IN  wire' = [present |-> TRUE,
                    req |-> Request(sign_request("b", body, authNow), body)]
    /\ UNCHANGED <<authNodes, authNow, accepted>>
    /\ AuthOnly

\* the holder of a key signs a message and a body of its choice
AuthCraft ==
    /\ ~accepted.present
    /\ \E p \in KeyHolders, nid \in KeyHolders, body \in AuthBodies,
          ts \in {TsNum(t) : t \in AuthTimes} \cup {TsNan} :
          wire' = [present |-> TRUE,
                   req |-> [id   |-> nid,
                            ts   |-> ts,
                            hash |-> Sha256(body),
                            sig  |-> Signature(PublicKeyOf(p),
                                       SignMessage(nid, ts, Sha256(body))),
                            body |-> body]]
    /\ UNCHANGED <<authNodes, authNow, accepted>>
    /\ AuthOnly

\* a request seen on the network with one header or the body replaced
AuthTamper ==
    /\ ~accepted.present
    /\ wire.present
    /\ \/ \E id \in {"", "a", "b", "c"} : wire' = [wire EXCEPT !.req.id = id]
       \/ \E ts \in {TsMissing, TsNum(authNow)} : wire' = [wire EXCEPT !.req.ts = ts]
       \/ \E h \in {NoHash} \cup {Sha256(b) : b \in AuthBodies} :
             wire' = [wire EXCEPT !.req.hash = h]
       \/ wire' = [wire EXCEPT !.req.sig = NoSig]
       \/ \E body \in AuthBodies : wire' = [wire EXCEPT !.req.body = body]
    /\ UNCHANGED <<authNodes, authNow, accepted>>
    /\ AuthOnly

\* PeerService.handle_heartbeat: the relay is inserted when it has no record
heartbeat_nodes(nodes, relay_id, now) ==
    IF relay_id \in DOMAIN nodes THEN nodes
    ELSE Put(nodes, relay_id,
             [node_id |-> relay_id, name |-> relay_id, mode |-> "relay",
              connectable |-> FALSE, host |-> "", registered_at |-> now,
              public_key |-> "", trust_status |-> TRUSTED])

\* peer_sync, peer_heartbeat, chat_push: 403 unless the request verifies
AuthDeliver ==
    /\ ~accepted.present
    /\ wire.present
    /\ \E endpoint \in Endpoints :
          LET req == wire.req
          IN  IF verify_node_signature(req, authNodes, authNow) # "ok"
              THEN UNCHANGED <<authNodes, accepted>>
              ELSE /\ accepted' = [present |-> TRUE, endpoint |-> endpoint,
                                   req |-> req, at |-> authNow,
                                   verified_id |-> remote_node_id(req),
                                   relay_id |-> Get(req.body, "node_id", "")]
                   /\ authNodes' = IF endpoint = "heartbeat"
                                   THEN heartbeat_nodes(authNodes,
                                           Get(req.body, "node_id", ""), authNow)
                                   ELSE authNodes
    /\ UNCHANGED <<authNow, wire>>
    /\ AuthOnly

\* the handler returns its answer
AuthRespond ==
    /\ accepted.present
    /\ accepted' = NotAccepted
    /\ UNCHANGED <<authNodes, authNow, wire>>
    /\ AuthOnly

AuthTick ==
    /\ ~accepted.present
    /\ \E d \in TickSteps :
          /\ authNow + d <= MaxNow
          /\ authNow' = authNow + d
    /\ UNCHANGED <<authNodes, wire, accepted>>
    /\ AuthOnly

NextAuth ==
    \/ AuthSend
    \/ AuthCraft
    \/ AuthTamper
    \/ AuthDeliver
    \/ AuthRespond
    \/ AuthTick

(***************************************************************************)
(* The inbound handlers PeerService.handle_sync and handle_heartbeat as    *)
(* functions of the stored documents and the request.                      *)
(***************************************************************************)
Store(nodes, states, chat, snippets) ==
    [nodes |-> nodes, states |-> states, chat |-> chat, snippets |-> snippets]

EmptyStore == Store(EmptyDoc, EmptyDoc, <<>>, <<>>)

\* the documents handle_sync writes
handle_sync_store(store, request_data) ==
    Store(merge_nodes(store.nodes, request_data.nodes),
          merge_states(store.states, request_data.states),
          merge_chat(store.chat, request_data.chat),
          merge_snippets(store.snippets, request_data.snippets))

\* resp_nodes, resp_states, resp_chat, resp_snippets
filter_store_since(store, since) ==
    Store(filter_nodes_since(store.nodes, since),
          filter_states_since(store.states, since),
          filter_chat_since(store.chat, since),
          filter_snippets_since(store.snippets, since))

handle_sync_response(store, request_data) ==
    filter_store_since(handle_sync_store(store, request_data), request_data.since)

\* the documents handle_heartbeat writes
handle_heartbeat_store(store, request_data, now) ==
    LET relay_id == request_data.node_id
    IN  [store EXCEPT
           !.states = Put(store.states, relay_id,
                          [node_id |-> relay_id, status |-> "online",
                           last_seen |-> now]),
           !.nodes  = heartbeat_nodes(store.nodes, relay_id, now)]

handle_heartbeat_response(store, request_data, now) ==
    filter_store_since(handle_heartbeat_store(store, request_data, now),
                       request_data.since)

MaxSince == 2

DeltaSince  == 0 .. MaxSince
DeltaStamps == 0 .. MaxSince + 1
DeltaNow    == 1 .. MaxSince + 1

\* records with and without their timestamp field
DeltaNodeRecords ==
    [trust_status : {TRUSTED}, name : {"n1"}, registered_at : DeltaStamps]
    \cup [trust_status : {TRUSTED}, name : {"n1"}]
DeltaStateRecords ==
    [status : {"online"}, last_seen : DeltaStamps] \cup [status : {"online"}]
DeltaMessages(ids) ==
    [id : ids, timestamp : DeltaStamps] \cup [id : ids]
DeltaSnippets(ids) ==
    [id : ids, created_at : {1}, updated_at : DeltaStamps]
    \cup [id : ids, created_at : {1}]

DeltaNodeDocs  == {EmptyDoc} \cup [{"b"} -> DeltaNodeRecords]
DeltaStateDocs == {EmptyDoc} \cup [{"b"} -> DeltaStateRecords]

\* a stored document and the request's document of one kind, the other
\* kinds empty
DeltaStorePairs ==
    {<<Store(l, EmptyDoc, <<>>, <<>>), Store(r, EmptyDoc, <<>>, <<>>)>> :
        l \in DeltaNodeDocs, r \in DeltaNodeDocs}
    \cup {<<Store(EmptyDoc, l, <<>>, <<>>), Store(EmptyDoc, r, <<>>, <<>>)>> :
        l \in DeltaStateDocs, r \in DeltaStateDocs}
    \cup {<<Store(EmptyDoc, EmptyDoc, l, <<>>), Store(EmptyDoc, EmptyDoc, r, <<>>)>> :
        l \in {<<>>} \cup {<<m>> : m \in DeltaMessages({"m1"})},
        r \in {<<>>} \cup {<<m>> : m \in DeltaMessages({"m1", "m2"})}}
    \cup {<<Store(EmptyDoc, EmptyDoc, <<>>, l), Store(EmptyDoc, EmptyDoc, <<>>, r)>> :
        l \in {<<>>} \cup {<<m>> : m \in DeltaSnippets({"s1"})},
        r \in {<<>>} \cup {<<m>> : m \in DeltaSnippets({"s1", "s2"})}}

DeltaIdle == [done |-> FALSE, endpoint |-> "", store |-> EmptyStore,
              resp |-> EmptyStore]

InitDelta ==
    /\ \E pair \in DeltaStorePairs, since \in DeltaSince, now \in DeltaNow,
          relay \in {"b", "c"} :
          dIn = [store |-> pair[1], now |-> now,
                 request |-> [node_id  |-> relay,
                              since    |-> since,
                              nodes    |-> pair[2].nodes,
                              states   |-> pair[2].states,
                              chat     |-> pair[2].chat,
                              snippets |-> pair[2].snippets]]
    /\ dOut = DeltaIdle

\* POST /peer/sync reaches handle_sync
DeltaHandleSync ==
    /\ ~dOut.done
    /\ dOut' = [done |-> TRUE, endpoint |-> "sync",
                store |-> handle_sync_store(dIn.store, dIn.request),
                resp  |-> handle_sync_response(dIn.store, dIn.request)]
    /\ UNCHANGED dIn
    /\ DeltaOnly

\* POST /peer/heartbeat reaches handle_heartbeat
DeltaHandleHeartbeat ==
    /\ ~dOut.done
    /\ dOut' = [done |-> TRUE, endpoint |-> "heartbeat",
                store |-> handle_heartbeat_store(dIn.store, dIn.request, dIn.now),
                resp  |-> handle_heartbeat_response(dIn.store, dIn.request, dIn.now)]
    /\ UNCHANGED dIn
    /\ DeltaOnly

NextDelta ==
    \/ DeltaHandleSync
    \/ DeltaHandleHeartbeat

(***************************************************************************)
(* One node "a" with its operator, its peers and its outbound exchanges.   *)
(* An exchange reads the cursor and the documents, awaits the peer's       *)
(* response and then merges and writes; every other handler may run while  *)
(* it awaits.                                                              *)
(***************************************************************************)
MaxTime          == 2
MaxLocalMessages == 1

NodeRecord(id, trust, at) == [AuthRecord(id, trust) EXCEPT !.registered_at = at]

KickedRecord(id, at) ==
    Put(NodeRecord(id, KICKED, at), "kicked_at", at)

StateRecord(id, status, at) ==
    [node_id |-> id, status |-> status, last_seen |-> at]

\* the URL under which discovery reaches a record: public_url, else the
\* one built from host; "" when the record has neither
peer_url(n) ==
    IF Get(n, "public_url", "") # "" THEN Get(n, "public_url", "")
    ELSE Get(n, "host", "")

\* a discovery that does not look at trust_status
discover_connectable_peers(nodes, self_id) ==
    {k \in DOMAIN nodes :
        /\ Get(nodes[k], "node_id", "") # self_id
        /\ Get(nodes[k], "mode", "") \in {"full", "temp_full"}
        /\ Get(nodes[k], "connectable", FALSE)
        /\ peer_url(nodes[k]) # ""}

\* PeerService._discover_trusted_connectable_peers
discover_trusted_connectable_peers(nodes, self_id) ==
    {k \in DOMAIN nodes :
        /\ Get(nodes[k], "node_id", "") # self_id
        /\ Get(nodes[k], "mode", "") \in {"full", "temp_full"}
        /\ Get(nodes[k], "connectable", FALSE)
        /\ Get(nodes[k], "trust_status", "") = TRUSTED
        /\ peer_url(nodes[k]) # ""}

get_peer_sync_time(meta, peer_id) == Get(meta, peer_id, 0)
set_peer_sync_time(meta, peer_id, ts) == Put(meta, peer_id, ts)

\* a marking that also resets last_seen
mark_node_offline_unseen(states, node_id) ==
    IF node_id \in DOMAIN states
    THEN Put(states, node_id,
             Put(Put(states[node_id], "status", "offline"), "last_seen", 0))
    ELSE states

mark_node_offline(states, node_id) ==
    IF node_id \in DOMAIN states
    THEN Put(states, node_id, Put(states[node_id], "status", "offline"))
    ELSE states

\* _save_message and the updater of chat_push
save_message(messages, msg) == KeepLast(Append(messages, msg), max_messages)

push_message(messages, msg) ==
    IF \E i \in DOMAIN messages : Get(messages[i], "id", "") = msg.id
    THEN messages
    ELSE save_message(messages, msg)

\* what a request signed by sender with its own key meets at the verifier
Verified(sender, nodes, at) ==
    LET body == [node_id |-> sender]
    IN  verify_node_signature(Request(sign_request(sender, body, at), body),
                              nodes, at) = "ok"

\* the loop that serves the node's role
ExchangeKind(id) ==
    IF id.mode = "full"
    THEN IF id.connectable THEN "sync" ELSE "active"
    ELSE "heartbeat"

Vias == {"loop", "manual"}

NoExchange ==
    [phase |-> "idle", kind |-> "", peer_id |-> "", last_sync |-> 0,
     sync_start |-> 0, local |-> EmptyStore]

\* what happens around the exchanges in one run: the operator kicks and
\* approves, a join request arrives, the SelfState task writes, a relay's
\* heartbeat arrives, a chat message is sent or pushed, a snippet and later
\* its tombstone come from the peer, or the peer's operator kicks c
Scenarios == {"operator", "join", "self_state", "heartbeat", "send", "push",
              "snippets", "kicked_at_peer"}

\* documents a peer holds and sends, in a request or in a response
RemoteStores(kind) ==
    {EmptyStore} \cup
    CASE kind = "operator" ->
           {Store([k \in {"c"} |-> NodeRecord("c", TRUSTED, 1)], EmptyDoc, <<>>, <<>>),
            Store([k \in {"c"} |-> KickedRecord("c", 2)], EmptyDoc, <<>>, <<>>)}
      [] kind = "kicked_at_peer" ->
           {Store([k \in {"c"} |-> KickedRecord("c", 2)], EmptyDoc, <<>>, <<>>)}
      [] kind = "join" ->
           {Store([k \in {"a"} |-> NodeRecord("a", TRUSTED, 2)], EmptyDoc, <<>>, <<>>)}
      [] kind = "self_state" ->
           {Store(EmptyDoc, [k \in {"b"} |-> StateRecord("b", "online", 2)], <<>>, <<>>)}
      [] kind \in {"send", "push"} ->
           {Store(EmptyDoc, EmptyDoc, <<[id |-> "m2", timestamp |-> 1]>>, <<>>)}
      [] kind = "snippets" ->
           {Store(EmptyDoc, EmptyDoc, <<>>,
                  <<[id |-> "s1", created_at |-> 1, updated_at |-> 1]>>),
            Store(EmptyDoc, EmptyDoc, <<>>,
                  <<[id |-> "s1", created_at |-> 1, updated_at |-> 2,
                     _deleted |-> TRUE]>>)}
      [] OTHER -> {}

\* the node ids the operator acts on, and those join requests name
OperatorIds == {"a", "c"}
JoinIds     == {"a", "c"}

InitReg ==
    /\ clock = 1
    /\ identity \in {[mode |-> "full", connectable |-> TRUE],
                     [mode |-> "full", connectable |-> FALSE],
                     [mode |-> "relay", connectable |-> FALSE]}
    /\ \E trust_c \in {TRUSTED, PENDING} :
          docs = Store([k \in {"a", "b", "c"} |->
                            CASE k = "a" -> NodeRecord("a", SELF, 1)
                              [] k = "b" -> NodeRecord("b", TRUSTED, 1)
                              [] OTHER   -> NodeRecord("c", trust_c, 1)],
                        EmptyDoc, <<>>, <<>>)
    /\ sync_meta = EmptyDoc
    /\ exch = [v \in Vias |-> NoExchange]
    /\ scenario \in Scenarios

RegTick ==
    /\ clock < MaxTime
    /\ clock' = clock + 1
    /\ UNCHANGED <<identity, docs, sync_meta, exch, scenario>>
    /\ RegOnly

\* POST /nodes/{node_id}/kick
kick_node ==
    /\ scenario = "operator"
    /\ \E node_id \in (DOMAIN docs.nodes \cap OperatorIds) \ {LocalId} :
          /\ Get(docs.nodes[node_id], "trust_status", "") # KICKED
          /\ docs' = [docs EXCEPT !.nodes[node_id] =
                         Put(Put(Put(@, "trust_status", KICKED),
                                 "kicked_at", clock), "registered_at", clock)]
    /\ UNCHANGED <<clock, identity, sync_meta, exch, scenario>>
    /\ RegOnly

\* POST /nodes/{node_id}/approve
approve_node ==
    /\ scenario = "operator"
    /\ \E node_id \in (DOMAIN docs.nodes \cap OperatorIds) \ {LocalId} :
          /\ Get(docs.nodes[node_id], "trust_status", "") \notin {TRUSTED, KICKED}
          /\ docs' = [docs EXCEPT !.nodes[node_id] =
                         Put(Put(@, "trust_status", TRUSTED), "registered_at", clock)]
    /\ UNCHANGED <<clock, identity, sync_meta, exch, scenario>>
    /\ RegOnly

\* a join_request that stores the applicant as pending whatever it holds
join_request_overwrites(nodes, data, now) ==
    IF data.node_id = "" \/ data.public_key = "" THEN nodes
    ELSE Put(nodes, data.node_id,
             [node_id |-> data.node_id, name |-> data.node_id,
              mode |-> Get(data, "mode", "full"),
              connectable |-> Get(data, "connectable", FALSE),
              host |-> Get(data, "host", ""),
              registered_at |-> now, public_key |-> data.public_key,
              trust_status |-> PENDING])

\* the registry after join_request has handled the body data
join_request_nodes(nodes, data, now) ==
    LET existing_status ==
            IF data.node_id \in DOMAIN nodes
            THEN Get(nodes[data.node_id], "trust_status", "")
            ELSE "absent"
        node_entry ==
            [node_id |-> data.node_id, name |-> data.node_id,
             mode |-> Get(data, "mode", "full"),
             connectable |-> Get(data, "connectable", FALSE),
             host |-> Get(data, "host", ""),
             registered_at |-> now, public_key |-> data.public_key,
             trust_status |-> PENDING]
    IN  IF data.node_id = "" \/ data.public_key = "" THEN nodes
        ELSE IF existing_status \in {KICKED, TRUSTED, PENDING} THEN nodes
        ELSE Put(nodes, data.node_id, node_entry)

\* trusted_nodes of join_request and join_status
trusted_nodes(nodes) ==
    [k \in {n \in DOMAIN nodes :
               Get(nodes[n], "trust_status", "") \in {TRUSTED, SELF}} |-> nodes[k]]

\* the HTTP answer of join_request: status code, "status" and "nodes" of the body
join_request_answer(nodes, data) ==
    LET existing_status ==
            IF data.node_id \in DOMAIN nodes
            THEN Get(nodes[data.node_id], "trust_status", "")
            ELSE "absent"
    IN  IF data.node_id = "" \/ data.public_key = ""
        THEN [code |-> 400, status |-> "", nodes |-> EmptyDoc]
        ELSE IF existing_status = KICKED
             THEN [code |-> 403, status |-> "kicked", nodes |-> EmptyDoc]
        ELSE IF existing_status = TRUSTED
             THEN [code |-> 200, status |-> "trusted", nodes |-> trusted_nodes(nodes)]
        ELSE [code |-> 200, status |-> "pending", nodes |-> EmptyDoc]

\* the answer of join_request, as the joining node reads it: a 403 makes
\* raise_for_status raise
join_request_response(nodes, data) ==
    LET answer == join_request_answer(nodes, data)
    IN  IF answer.code # 200
        THEN [status |-> "error", nodes |-> EmptyDoc]
        ELSE [status |-> answer.status, nodes |-> answer.nodes]

\* the HTTP answer of join_status: the key is compared when the query has one
join_status_answer(nodes, node_id, public_key) ==
    IF node_id = ""
    THEN [code |-> 400, status |-> "", nodes |-> EmptyDoc]
    ELSE IF node_id \notin DOMAIN nodes
         THEN [code |-> 200, status |-> "unknown", nodes |-> EmptyDoc]
    ELSE IF public_key # "" /\ Get(nodes[node_id], "public_key", "") # public_key
         THEN [code |-> 403, status |-> "", nodes |-> EmptyDoc]
    ELSE IF Get(nodes[node_id], "trust_status", "") = TRUSTED
         THEN [code |-> 200, status |-> "trusted", nodes |-> trusted_nodes(nodes)]
    ELSE [code |-> 200, status |-> Get(nodes[node_id], "trust_status", ""),
          nodes |-> EmptyDoc]

\* the answer of join_status to the poll of node_id with its public key
join_status_response(nodes, node_id, public_key) ==
    LET answer == join_status_answer(nodes, node_id, public_key)
    IN  IF answer.code # 200
        THEN [status |-> "error", nodes |-> EmptyDoc]
        ELSE [status |-> answer.status, nodes |-> answer.nodes]

\* POST /peer/join-request, unauthenticated
join_request ==
    /\ scenario = "join"
    /\ \E join_id \in JoinIds, join_key \in {"kx"} :
          docs' = [docs EXCEPT
                     !.nodes = join_request_nodes(@,
                                  [node_id |-> join_id, public_key |-> join_key],
                                  clock)]
    /\ UNCHANGED <<clock, identity, sync_meta, exch, scenario>>
    /\ RegOnly

\* POST /peer/sync from peer b
peer_sync ==
    /\ Verified("b", docs.nodes, clock)
    /\ \E remote \in RemoteStores(scenario), since \in {0, 1} :
          docs' = handle_sync_store(docs,
                       [node_id |-> "b", since |-> since,
                        nodes |-> remote.nodes, states |-> remote.states,
                        chat |-> remote.chat, snippets |-> remote.snippets])
    /\ UNCHANGED <<clock, identity, sync_meta, exch, scenario>>
    /\ RegOnly

\* POST /peer/heartbeat from peer b
peer_heartbeat ==
    /\ scenario = "heartbeat"
    /\ Verified("b", docs.nodes, clock)
    /\ docs' = handle_heartbeat_store(docs, [node_id |-> "b", since |-> 0], clock)
    /\ UNCHANGED <<clock, identity, sync_meta, exch, scenario>>
    /\ RegOnly

\* POST /peer/chat-push from peer b
chat_push ==
    /\ scenario = "push"
    /\ Verified("b", docs.nodes, clock)
    /\ docs' = [docs EXCEPT
                   !.chat = push_message(@, [id |-> "m2", timestamp |-> 1])]
    /\ UNCHANGED <<clock, identity, sync_meta, exch, scenario>>
    /\ RegOnly

\* POST /chat/messages: a message of this node under a fresh id
send_message ==
    /\ scenario = "send"
    /\ Cardinality({i \in DOMAIN docs.chat : docs.chat[i].id = "m1"})
          < MaxLocalMessages
    /\ docs' = [docs EXCEPT
                   !.chat = save_message(@, [id |-> "m1", timestamp |-> clock])]
    /\ UNCHANGED <<clock, identity, sync_meta, exch, scenario>>
    /\ RegOnly

\* PeerService._update_self_state
update_self_state ==
    /\ scenario = "self_state"
    /\ docs' = [docs EXCEPT
                   !.states = Put(@, LocalId, StateRecord(LocalId, "online", clock))]
    /\ UNCHANGED <<clock, identity, sync_meta, exch, scenario>>
    /\ RegOnly

\* _sync_with_peer, _do_active_sync, _send_heartbeat up to the awaited POST,
\* started by the main loop or by trigger_sync_now
SyncBegin ==
    /\ \E via \in Vias, peer_id \in discover_trusted_connectable_peers(docs.nodes, LocalId) :
          /\ exch[via].phase = "idle"
          /\ exch' = [exch EXCEPT ![via] =
                [phase      |-> "awaiting",
                 kind       |-> ExchangeKind(identity),
                 peer_id    |-> peer_id,
                 last_sync  |-> get_peer_sync_time(sync_meta, peer_id),
                 sync_start |-> clock,
                 local      |-> IF ExchangeKind(identity) = "heartbeat"
                                THEN EmptyStore ELSE docs]]
    /\ UNCHANGED <<clock, identity, docs, sync_meta, scenario>>
    /\ RegOnly

\* the response of _send_heartbeat is merged with documents read afresh
heartbeat_merge(current, data) ==
    Store(IF data.nodes # EmptyDoc
          THEN merge_nodes(current.nodes, data.nodes) ELSE current.nodes,
          IF data.states # EmptyDoc
          THEN merge_states(current.states, data.states) ELSE current.states,
          IF data.chat # <<>>
          THEN merge_chat(current.chat, data.chat) ELSE current.chat,
          IF data.snippets # <<>>
          THEN merge_snippets(current.snippets, data.snippets)
          ELSE current.snippets)

\* the response of _sync_with_peer and _do_active_sync is merged with the
\* documents read before the request was sent
sync_merge(local, data) ==
    Store(merge_nodes(local.nodes, data.nodes),
          merge_states(local.states, data.states),
          merge_chat(local.chat, data.chat),
          merge_snippets(local.snippets, data.snippets))

\* the awaited POST returns 200: merge, write, advance the cursor
SyncSucceed ==
    /\ \E via \in Vias, data \in RemoteStores(scenario) :
          LET e == exch[via]
          IN  /\ e.phase = "awaiting"
              /\ docs' = IF e.kind = "heartbeat"
                          THEN heartbeat_merge(docs, data)
                          ELSE sync_merge(e.local, data)
              /\ sync_meta' = set_peer_sync_time(sync_meta, e.peer_id, e.sync_start)
              /\ exch' = [exch EXCEPT ![via] = NoExchange]
    /\ UNCHANGED <<clock, identity, scenario>>
    /\ RegOnly

\* the awaited POST raises
SyncFail ==
    /\ \E via \in Vias :
          LET e == exch[via]
          IN  /\ e.phase = "awaiting"
              /\ docs' = IF e.kind = "sync"
                          THEN [docs EXCEPT
                                  !.states = mark_node_offline(@, e.peer_id)]
                          ELSE docs
              /\ exch' = [exch EXCEPT ![via] = NoExchange]
    /\ UNCHANGED <<clock, identity, sync_meta, scenario>>
    /\ RegOnly

Next ==
    \/ RegTick
    \/ kick_node
    \/ approve_node
    \/ join_request
    \/ peer_sync
    \/ peer_heartbeat
    \/ chat_push
    \/ send_message
    \/ update_self_state
    \/ SyncBegin
    \/ SyncSucceed
    \/ SyncFail

(***************************************************************************)
(* One round of _gossip_loop at the full, connectable node "a" with the    *)
(* trusted peers "b" and "c": asyncio.gather starts one _sync_with_peer    *)
(* task per selected peer, each task runs to its awaited POST before any   *)
(* response is handled, and the responses then arrive in either order.     *)
(* exch is indexed by the peer of the task and keeps what the peer         *)
(* returned until the loop sleeps.                                         *)
(***************************************************************************)
max_fanout == 3

GossipPeers == {"b", "c"}

\* the items a peer returns: nothing, or one of each document under its name
GossipReturns(peer_id) ==
    {EmptyStore,
     Store([k \in {"n_" \o peer_id} |-> NodeRecord("n_" \o peer_id, PENDING, 1)],
           [k \in {peer_id} |-> StateRecord(peer_id, "online", 1)],
           <<[id |-> "m_" \o peer_id, timestamp |-> 1]>>,
           <<[id |-> "s_" \o peer_id, created_at |-> 1, updated_at |-> 1]>>)}

NoGossipTask == [phase |-> "idle", last_sync |-> 0, sync_start |-> 0,
           local |-> EmptyStore, data |-> EmptyStore]

InitGossip ==
    /\ clock = 1
    /\ identity = [mode |-> "full", connectable |-> TRUE]
    /\ docs = Store([k \in {"a", "b", "c"} |->
                        NodeRecord(k, IF k = "a" THEN SELF ELSE TRUSTED, 1)],
                    EmptyDoc, <<>>, <<>>)
    /\ sync_meta = EmptyDoc
    /\ exch = [p \in GossipPeers |-> NoGossipTask]
    /\ scenario = "gossip"

GossipTick ==
    /\ clock < MaxTime
    /\ clock' = clock + 1
    /\ UNCHANGED <<identity, docs, sync_meta, exch, scenario>>
    /\ RegOnly

\* selected = random.sample(peers, min(max_fanout, len(peers))); every task
\* reads its cursor and the four documents and sends its request
GossipBegin ==
    LET peers == discover_trusted_connectable_peers(docs.nodes, LocalId)
    IN  /\ \A p \in GossipPeers : exch[p].phase = "idle"
        /\ peers # {}
        /\ \E selected \in SUBSET peers :
              /\ Cardinality(selected) = IF max_fanout < Cardinality(peers)
                                       THEN max_fanout ELSE Cardinality(peers)
              /\ exch' = [p \in GossipPeers |->
                            IF p \in selected
                            THEN [phase      |-> "awaiting",
                                  last_sync  |-> get_peer_sync_time(sync_meta, p),
                                  sync_start |-> clock,
                                  local      |-> docs,
                                  data       |-> EmptyStore]
                            ELSE exch[p]]
        /\ UNCHANGED <<clock, identity, docs, sync_meta, scenario>>
        /\ RegOnly

\* the POST of one task returns 200: merge, write, advance the cursor
GossipSucceed ==
    /\ \E p \in GossipPeers : \E data \in GossipReturns(p) :
          /\ exch[p].phase = "awaiting"
          /\ docs' = sync_merge(exch[p].local, data)
          /\ sync_meta' = set_peer_sync_time(sync_meta, p, exch[p].sync_start)
          /\ exch' = [exch EXCEPT ![p].phase = "done", ![p].data = data]
    /\ UNCHANGED <<clock, identity, scenario>>
    /\ RegOnly

\* the POST of one task raises
GossipFail ==
    /\ \E p \in GossipPeers :
          /\ exch[p].phase = "awaiting"
          /\ docs' = [docs EXCEPT !.states = mark_node_offline(@, p)]
          /\ exch' = [exch EXCEPT ![p].phase = "failed"]
    /\ UNCHANGED <<clock, identity, sync_meta, scenario>>
    /\ RegOnly

\* gather has returned: await asyncio.sleep(interval), then the next round
GossipSleep ==
    /\ \A p \in GossipPeers : exch[p].phase \in {"done", "failed"}
    /\ exch' = [p \in GossipPeers |-> NoGossipTask]
    /\ UNCHANGED <<clock, identity, docs, sync_meta, scenario>>
    /\ RegOnly

NextGossip ==
    \/ GossipTick
    \/ GossipBegin
    \/ GossipSucceed
    \/ GossipFail
    \/ GossipSleep

(***************************************************************************)
(* The chat and snippets documents of one node under their writers: the    *)
(* local send, the inbound chat-push, the snippet create, update and       *)
(* delete handlers, and the merge of handle_sync.  Every handler reads,    *)
(* changes and writes without awaiting.  Ids are uuid4 values: an id made  *)
(* here is the text of the clock reading it was made at.  A message        *)
(* carries its id and timestamp, a snippet its id, title, created_at,      *)
(* updated_at and _deleted; the fields no writer compares are left out.    *)
(***************************************************************************)
MaxDocOps == 3

\* the chat after n local sends at the clock readings 1..n
History(n) == [i \in 1..n |-> [id |-> ToString(i), timestamp |-> i]]

\* send times a peer's clock has stamped: before every local message, and
\* after the local clock's first reading
DocStamps == {0, max_messages + 2}

DocRemoteMessages ==
    [id : {"r1", "r2"}, timestamp : DocStamps]
    \cup {[id |-> "1", timestamp |-> 1]}

DocRemoteChats ==
    {<<>>} \cup {<<m>> : m \in DocRemoteMessages}
    \cup {<<m1, m2>> : m1 \in [id : {"r1"}, timestamp : DocStamps],
                       m2 \in [id : {"r2"}, timestamp : DocStamps]}

DocRemoteSnippets ==
    {<<>>} \cup {<<[id |-> "r1", title |-> "t1", created_at |-> t,
                    updated_at |-> t]>> : t \in DocStamps}

\* the request bodies of a peer's sync: chat or snippets
DocRequests ==
    {[node_id |-> "b", since |-> 0, nodes |-> EmptyDoc, states |-> EmptyDoc,
      chat |-> c, snippets |-> <<>>] : c \in DocRemoteChats}
    \cup
    {[node_id |-> "b", since |-> 0, nodes |-> EmptyDoc, states |-> EmptyDoc,
      chat |-> <<>>, snippets |-> sn] : sn \in DocRemoteSnippets}

NoDocRequest ==
    [present |-> FALSE,
     data |-> [node_id |-> "", since |-> 0, nodes |-> EmptyDoc,
               states |-> EmptyDoc, chat |-> <<>>, snippets |-> <<>>]]

InitDoc(histories) ==
    /\ docNow = max_messages + 1
    /\ \E n \in histories : docStore = Store(EmptyDoc, EmptyDoc, History(n), <<>>)
    /\ docOps = 0
    /\ docReq = NoDocRequest

\* the index of the first entry the test holds of, 0 when there is none
FirstIndex(seq, Test(_)) ==
    IF \E i \in DOMAIN seq : Test(seq[i])
    THEN CHOOSE i \in DOMAIN seq :
            Test(seq[i]) /\ \A j \in 1..(i - 1) : ~Test(seq[j])
    ELSE 0

\* the updater of create_snippet
create_snippet(snippets, now) ==
    Append(snippets, [id |-> ToString(now), title |-> "t1",
                      created_at |-> now, updated_at |-> now])

\* the updater of update_snippet with a body that sets the title
update_snippet(snippets, snippet_id, title, now) ==
    LET Live(sn) == Get(sn, "id", "") = snippet_id /\ ~Get(sn, "_deleted", FALSE)
        i == FirstIndex(snippets, Live)
    IN  IF i = 0 THEN snippets
        ELSE [snippets EXCEPT
                ![i] = Put(Put(@, "title", title), "updated_at", now)]

\* the updater of delete_snippet: a soft delete
delete_snippet(snippets, snippet_id, now) ==
    LET Named(sn) == Get(sn, "id", "") = snippet_id
        i == FirstIndex(snippets, Named)
    IN  IF i = 0 THEN snippets
        ELSE [snippets EXCEPT
                ![i] = Put(Put(@, "_deleted", TRUE), "updated_at", now)]

\* the ids GET /snippets/ shows
list_snippets(snippets) ==
    {Get(snippets[i], "id", "") :
        i \in {j \in DOMAIN snippets : ~Get(snippets[j], "_deleted", FALSE)}}

SnippetIds(snippets) == {Get(snippets[i], "id", "") : i \in DOMAIN snippets}

\* POST /chat/messages
DocSend ==
    /\ docOps < MaxDocOps
    /\ docStore' = [docStore EXCEPT
          !.chat = save_message(@, [id |-> ToString(docNow), timestamp |-> docNow])]
    /\ docNow' = docNow + 1
    /\ docOps' = docOps + 1
    /\ docReq' = NoDocRequest
    /\ DocOnly

\* POST /peer/chat-push with a verified signature
DocPush ==
    /\ docOps < MaxDocOps
    /\ \E msg \in DocRemoteMessages :
          docStore' = [docStore EXCEPT !.chat = push_message(@, msg)]
    /\ docOps' = docOps + 1
    /\ UNCHANGED docNow
    /\ docReq' = NoDocRequest
    /\ DocOnly

\* POST /peer/sync with a verified signature
DocSync ==
    /\ docOps < MaxDocOps
    /\ \E request_data \in DocRequests :
          /\ docStore' = handle_sync_store(docStore, request_data)
          /\ docReq' = [present |-> TRUE, data |-> request_data]
    /\ docOps' = docOps + 1
    /\ UNCHANGED docNow
    /\ DocOnly

\* POST /snippets/
DocCreate ==
    /\ docOps < MaxDocOps
    /\ docStore' = [docStore EXCEPT !.snippets = create_snippet(@, docNow)]
    /\ docNow' = docNow + 1
    /\ docOps' = docOps + 1
    /\ docReq' = NoDocRequest
    /\ DocOnly

\* PUT /snippets/{snippet_id}
DocUpdate ==
    /\ docOps < MaxDocOps
    /\ \E snippet_id \in SnippetIds(docStore.snippets) :
          docStore' = [docStore EXCEPT
              !.snippets = update_snippet(@, snippet_id, "t2", docNow)]
    /\ docNow' = docNow + 1
    /\ docOps' = docOps + 1
    /\ docReq' = NoDocRequest
    /\ DocOnly

\* DELETE /snippets/{snippet_id}
DocDelete ==
    /\ docOps < MaxDocOps
    /\ \E snippet_id \in SnippetIds(docStore.snippets) :
          docStore' = [docStore EXCEPT
              !.snippets = delete_snippet(@, snippet_id, docNow)]
    /\ docNow' = docNow + 1
    /\ docOps' = docOps + 1
    /\ docReq' = NoDocRequest
    /\ DocOnly

NextDoc ==
    \/ DocSend
    \/ DocPush
    \/ DocSync
    \/ DocCreate
    \/ DocUpdate
    \/ DocDelete

(***************************************************************************)
(* One node "a" joining the network of "b": the outbound join with its     *)
(* trusted fast path, the approval poll and its adoption of the snapshot,  *)
(* inbound join requests, merges of what b sends, and restarts.  b answers *)
(* from a registry of its own: its self record, and what it holds for "a"  *)
(* and for a third node "d".                                               *)
(***************************************************************************)
MaxJoinTime == 2

\* NodeIdentity.get_handshake_info
get_handshake_info(id) == [node_id |-> id, public_key |-> PublicKeyOf(id)]

\* the registries b may answer from
PeerRegistries ==
    {[k \in {"b"} \cup has_a \cup has_d |->
         CASE k = "b" -> NodeRecord("b", SELF, 1)
           [] k = "a" -> NodeRecord("a", trust_a, 1)
           [] OTHER   -> NodeRecord("d", trust_d, 1)] :
      has_a \in {{}, {"a"}}, has_d \in {{}, {"d"}},
      trust_a \in {PENDING, TRUSTED, KICKED}, trust_d \in {PENDING, TRUSTED}}

\* join_network without its save_remote step: the snapshot is stored and
\* the target's record stays as the snapshot has it
join_network_snapshot_only(nodes, self_id, remote_info, join_result, host, now) ==
    LET network_nodes == join_result.nodes
        taken == IF join_result.status = "trusted"
                 THEN DOMAIN network_nodes \ {self_id} ELSE {}
    IN  [k \in DOMAIN nodes \cup taken |->
            IF k \in taken THEN network_nodes[k] ELSE nodes[k]]

\* nodes.json after join_network got remote_info and join_result
join_network_nodes(nodes, self_id, remote_info, join_result, host, now) ==
    LET network_nodes == join_result.nodes
        taken  == IF join_result.status = "trusted"
                  THEN DOMAIN network_nodes \ {self_id} ELSE {}
        stored == [k \in DOMAIN nodes \cup taken |->
                      IF k \in taken THEN network_nodes[k] ELSE nodes[k]]
        remote_entry ==
            [node_id |-> remote_info.node_id, name |-> remote_info.node_id,
             mode |-> "full", connectable |-> TRUE, host |-> host,
             registered_at |-> now, public_key |-> remote_info.public_key,
             trust_status |-> IF join_result.status = "trusted"
                              THEN TRUSTED ELSE WAITING_APPROVAL]
    IN  Put(stored, remote_info.node_id, remote_entry)

\* a snapshot record as _join_poll_loop stores it
adopt(ninfo) == Put(ninfo, "trust_status", TRUSTED)

\* a poll that adopts every snapshot entry, whatever the node holds for it
join_poll_takes_all(nodes, self_id, target_id, network_nodes) ==
    LET taken == DOMAIN network_nodes \ {self_id}
        local_nodes == [k \in DOMAIN nodes \cup taken |->
                           IF k \in taken THEN adopt(network_nodes[k])
                           ELSE nodes[k]]
    IN  IF target_id \in DOMAIN local_nodes
        THEN Put(local_nodes, target_id,
                 Put(local_nodes[target_id], "trust_status", TRUSTED))
        ELSE local_nodes

\* nodes.json after _join_poll_loop got the answer "trusted"
join_poll_nodes(nodes, self_id, target_id, network_nodes) ==
    LET taken == {k \in DOMAIN network_nodes \ {self_id} :
                     \/ k \notin DOMAIN nodes
                     \/ Get(nodes[k], "trust_status", "") = WAITING_APPROVAL}
        local_nodes == [k \in DOMAIN nodes \cup taken |->
                           IF k \in taken THEN adopt(network_nodes[k])
                           ELSE nodes[k]]
    IN  IF target_id \in DOMAIN local_nodes
        THEN Put(local_nodes, target_id,
                 Put(local_nodes[target_id], "trust_status", TRUSTED))
        ELSE local_nodes

\* PeerService._check_pending_joins
check_pending_joins(nodes) ==
    LET waiting == {k \in DOMAIN nodes :
                      Get(nodes[k], "trust_status", "") = WAITING_APPROVAL}
    IN  IF waiting = {} THEN [status |-> "", target_id |-> ""]
        ELSE [status |-> "polling", target_id |-> CHOOSE k \in waiting : TRUE]

\* no target: nothing held, nothing answered
NoPeer == [nodes |-> EmptyDoc, tick |-> 0,
           answer |-> [status |-> "", nodes |-> EmptyDoc]]

InitJoin ==
    /\ joinNow = 1
    /\ joinNodes = [k \in {LocalId} |-> NodeRecord(LocalId, SELF, 1)]
    /\ joinPoll = [status |-> "", target_id |-> ""]
    /\ joinPeer = NoPeer

JoinTick ==
    /\ joinNow < MaxJoinTime
    /\ joinNow' = joinNow + 1
    /\ UNCHANGED <<joinNodes, joinPoll>>
    /\ JoinOnly

\* the process starts again: NodeIdentity.initialize, PeerService.start
JoinRestart ==
    /\ joinNodes' = Put(joinNodes, LocalId, NodeRecord(LocalId, SELF, joinNow))
    /\ joinPoll' = check_pending_joins(joinNodes')
    /\ UNCHANGED joinNow
    /\ JoinOnly

\* POST /nodes/join with the host of b
JoinNetwork ==
    /\ \E registry \in PeerRegistries :
          LET remote_info == get_handshake_info("b")
              join_payload == get_handshake_info(LocalId)
              join_result == join_request_response(registry, join_payload)
          IN  /\ remote_info.node_id # LocalId
              /\ join_result.status # "error"
              /\ joinNodes' = join_network_nodes(joinNodes, LocalId, remote_info,
                                                 join_result, "b", joinNow)
              /\ joinPoll' = [status |-> "polling", target_id |-> "b"]
    /\ UNCHANGED joinNow
    /\ JoinOnly

\* _join_poll_loop: one poll of the target answered
JoinPoll ==
    /\ joinPoll.status = "polling"
    /\ \E registry \in PeerRegistries :
          LET data == join_status_response(registry, LocalId, PublicKeyOf(LocalId))
          IN  /\ data.status # "error"
              /\ IF data.status = "trusted"
                 THEN /\ joinNodes' = join_poll_nodes(joinNodes, LocalId,
                                         joinPoll.target_id, data.nodes)
                      /\ joinPoll' = [joinPoll EXCEPT !.status = "trusted"]
                 ELSE IF data.status = "kicked"
                 THEN /\ joinPoll' = [joinPoll EXCEPT !.status = "kicked"]
                      /\ UNCHANGED joinNodes
                 ELSE UNCHANGED <<joinNodes, joinPoll>>
    /\ UNCHANGED joinNow
    /\ JoinOnly

\* POST /peer/join-request at a, from d or naming a itself
JoinInbound ==
    /\ \E join_id \in {"a", "d"} :
          joinNodes' = join_request_nodes(joinNodes,
                          [node_id |-> join_id, public_key |-> "kx"], joinNow)
    /\ UNCHANGED <<joinNow, joinPoll>>
    /\ JoinOnly

\* POST /peer/sync at a from b: handle_sync merges b's registry
JoinMerge ==
    /\ Verified("b", joinNodes, joinNow)
    /\ \E registry \in PeerRegistries :
          joinNodes' = merge_nodes(joinNodes, registry)
    /\ UNCHANGED <<joinNow, joinPoll>>
    /\ JoinOnly

NextJoin ==
    \/ JoinTick
    \/ JoinRestart
    \/ JoinNetwork
    \/ JoinPoll
    \/ JoinInbound
    \/ JoinMerge

(***************************************************************************)
(* The operator's endpoints approve_node and kick_node and the             *)
(* unauthenticated endpoints join_request and join_status, each with its   *)
(* answer.  A node that runs holds its self record.  In the first run node *)
(* "a" holds one record of every trust status and no record of "d"; in the *)
(* second run "a" and "b" trust each other, each holds the pending record  *)
(* of "c", and they merge their registries as _merge_nodes does.           *)
(***************************************************************************)
MaxOpTime  == 3
MaxOpCalls == 4

OpRunners == {"a", "b"}
OpHost    == "10.0.0.9"
OpIds     == {"a", "b", "c", "d", "k", "w"}
OpKey     == [a |-> "ka", b |-> "kb", c |-> "kc", d |-> "kd", k |-> "kk", w |-> "kw"]

OpRecord(id, trust, at) == [NodeRecord(id, trust, at) EXCEPT !.public_key = OpKey[id]]

\* one record of every trust status
OpRegistry ==
    [id \in OpIds \ {"d"} |->
        CASE id = "a" -> OpRecord("a", SELF, 1)
          [] id = "b" -> OpRecord("b", TRUSTED, 1)
          [] id = "c" -> OpRecord("c", PENDING, 1)
          [] id = "w" -> OpRecord("w", WAITING_APPROVAL, 1)
          [] OTHER    -> Put(OpRecord("k", KICKED, 1), "kicked_at", 1)]

\* the registry of n when n and its peer trust each other and c asked both
OpPairRegistry(n) ==
    [id \in {"a", "b", "c"} |->
        IF id = n THEN OpRecord(id, SELF, 1)
        ELSE IF id = "c" THEN OpRecord("c", PENDING, 1)
        ELSE OpRecord(id, TRUSTED, 1)]

NoCall ==
    [seq |-> 0, call |-> "", node |-> "", node_id |-> "", public_key |-> "",
     at |-> 0, code |-> 0, status |-> "", nodes |-> EmptyDoc]

Called(call, n, node_id, public_key, answer) ==
    [seq |-> opLast.seq + 1, call |-> call, node |-> n, node_id |-> node_id,
     public_key |-> public_key, at |-> opNow, code |-> answer.code,
     status |-> answer.status, nodes |-> answer.nodes]

InitOps ==
    /\ opNow = 1
    /\ opNodes = [n \in OpRunners |-> IF n = "a" THEN OpRegistry ELSE EmptyDoc]
    /\ opLast = NoCall

InitPair ==
    /\ opNow = 1
    /\ opNodes = [n \in OpRunners |-> OpPairRegistry(n)]
    /\ opLast = NoCall

OpRunning(n) == opNodes[n] # EmptyDoc

\* POST /nodes/{node_id}/approve: the answer and the registry it leaves
approve_node_result(nodes, self_id, node_id, now) ==
    LET current_status == Get(nodes[node_id], "trust_status", "")
    IN  IF node_id = self_id
        THEN [code |-> 200, status |-> "error", nodes |-> nodes]
        ELSE IF node_id \notin DOMAIN nodes
             THEN [code |-> 404, status |-> "error", nodes |-> nodes]
        ELSE IF current_status = TRUSTED
             THEN [code |-> 200, status |-> "already", nodes |-> nodes]
        ELSE IF current_status = KICKED
             THEN [code |-> 200, status |-> "error", nodes |-> nodes]
        ELSE [code |-> 200, status |-> "success",
              nodes |-> [nodes EXCEPT ![node_id] =
                            Put(Put(@, "trust_status", TRUSTED),
                                "registered_at", now)]]

\* a kick that stamps the record whatever its status is
kick_node_restamps(nodes, self_id, node_id, now) ==
    IF node_id = self_id
    THEN [code |-> 200, status |-> "error", nodes |-> nodes]
    ELSE IF node_id \notin DOMAIN nodes
         THEN [code |-> 404, status |-> "error", nodes |-> nodes]
    ELSE [code |-> 200, status |-> "success",
          nodes |-> [nodes EXCEPT ![node_id] =
                        Put(Put(Put(@, "trust_status", KICKED),
                                "kicked_at", now), "registered_at", now)]]

\* POST /nodes/{node_id}/kick: the answer and the registry it leaves
kick_node_result(nodes, self_id, node_id, now) ==
    LET current_status == Get(nodes[node_id], "trust_status", "")
    IN  IF node_id = self_id
        THEN [code |-> 200, status |-> "error", nodes |-> nodes]
        ELSE IF node_id \notin DOMAIN nodes
             THEN [code |-> 404, status |-> "error", nodes |-> nodes]
        ELSE IF current_status = KICKED
             THEN [code |-> 200, status |-> "already", nodes |-> nodes]
        ELSE [code |-> 200, status |-> "success",
              nodes |-> [nodes EXCEPT ![node_id] =
                            Put(Put(Put(@, "trust_status", KICKED),
                                    "kicked_at", now), "registered_at", now)]]

OpTick ==
    /\ opNow < MaxOpTime
    /\ opNow' = opNow + 1
    /\ UNCHANGED <<opNodes, opLast>>
    /\ OpOnly

OpApprove ==
    /\ opLast.seq < MaxOpCalls
    /\ \E n \in OpRunners, node_id \in OpIds :
          LET result == approve_node_result(opNodes[n], n, node_id, opNow)
          IN  /\ OpRunning(n)
              /\ opNodes' = [opNodes EXCEPT ![n] = result.nodes]
              /\ opLast' = Called("approve", n, node_id, "",
                                  [result EXCEPT !.nodes = EmptyDoc])
    /\ UNCHANGED opNow
    /\ OpOnly

OpKick ==
    /\ opLast.seq < MaxOpCalls
    /\ \E n \in OpRunners, node_id \in OpIds :
          LET result == kick_node_result(opNodes[n], n, node_id, opNow)
          IN  /\ OpRunning(n)
              /\ opNodes' = [opNodes EXCEPT ![n] = result.nodes]
              /\ opLast' = Called("kick", n, node_id, "",
                                  [result EXCEPT !.nodes = EmptyDoc])
    /\ UNCHANGED opNow
    /\ OpOnly

\* POST /peer/join-request with a body that names node_id and a public key
OpJoinRequest ==
    /\ opLast.seq < MaxOpCalls
    /\ \E n \in OpRunners, node_id \in OpIds, public_key \in {"", "kx"} :
          \E host \in {"", OpHost} :
          LET data == [node_id |-> node_id, public_key |-> public_key,
                       connectable |-> TRUE, host |-> host]
          IN  /\ OpRunning(n)
              /\ opNodes' = [opNodes EXCEPT
                                ![n] = join_request_nodes(@, data, opNow)]
              /\ opLast' = Called("join-request", n, node_id, public_key,
                                  join_request_answer(opNodes[n], data))
    /\ UNCHANGED opNow
    /\ OpOnly

\* a main loop or the chat hub of a running node begins a round: the peers
\* it selects are the ones its requests of the round go to
OpRound ==
    /\ opLast.seq < MaxOpCalls
    /\ \E n \in OpRunners :
          LET selected == discover_trusted_connectable_peers(opNodes[n], n)
          IN  /\ OpRunning(n)
              /\ opLast' = Called("round", n, "", "",
                                  [code |-> 0, status |-> "",
                                   nodes |-> [k \in selected |-> opNodes[n][k]]])
    /\ UNCHANGED <<opNow, opNodes>>
    /\ OpOnly

\* GET /peer/join-status?node_id=&public_key=
OpJoinStatus ==
    /\ opLast.seq < MaxOpCalls
    /\ \E n \in OpRunners, node_id \in OpIds :
          \E public_key \in {"", "kx", OpKey[node_id]} :
              /\ OpRunning(n)
              /\ opLast' = Called("join-status", n, node_id, public_key,
                                  join_status_answer(opNodes[n], node_id, public_key))
    /\ UNCHANGED <<opNow, opNodes>>
    /\ OpOnly

\* n takes in the registry of m: merged_nodes of handle_sync
OpMerge ==
    /\ opLast.seq < MaxOpCalls
    /\ \E n \in OpRunners : \E m \in OpRunners \ {n} :
          /\ OpRunning(n) /\ OpRunning(m)
          /\ opNodes' = [opNodes EXCEPT ![n] = merge_nodes(@, opNodes[m])]
          /\ opLast' = Called("merge", n, m, "",
                              [code |-> 200, status |-> "", nodes |-> EmptyDoc])
    /\ UNCHANGED opNow
    /\ OpOnly

NextOps ==
    \/ OpTick
    \/ OpApprove
    \/ OpKick
    \/ OpJoinRequest
    \/ OpJoinStatus
    \/ OpRound

NextPair ==
    \/ OpTick
    \/ OpApprove
    \/ OpMerge

(***************************************************************************)
(* Node "a" joining the network of "b" with the registry of b as state:    *)
(* b stores the join request of a, the operator of b approves or kicks a,  *)
(* and the poll loop of a asks b for its status.  tick of joinPeer turns   *)
(* with every poll that is answered or fails.                              *)
(***************************************************************************)
\* nodes.json of a at the start: its own record, and perhaps d, kicked
PollLocalRegistries ==
    {[k \in {LocalId} \cup has_d |->
         IF k = LocalId THEN NodeRecord(LocalId, SELF, 1)
         ELSE KickedRecord("d", 1)] : has_d \in {{}, {"d"}}}

\* nodes.json of b at the start: its own record, and perhaps d, trusted
PollPeerRegistries ==
    {[k \in {"b"} \cup has_d |->
         IF k = "b" THEN NodeRecord("b", SELF, 1)
         ELSE NodeRecord("d", TRUSTED, 1)] : has_d \in {{}, {"d"}}}

InitPoll ==
    /\ joinNow = 1
    /\ joinNodes \in PollLocalRegistries
    /\ joinPoll = [status |-> "", target_id |-> ""]
    /\ \E registry \in PollPeerRegistries :
          joinPeer = [NoPeer EXCEPT !.nodes = registry]

\* POST /nodes/join at a with the host of b; b handles the join request
PollJoin ==
    /\ LET remote_info == get_handshake_info("b")
           join_payload == get_handshake_info(LocalId)
           join_result == join_request_response(joinPeer.nodes, join_payload)
       IN  /\ join_result.status # "error"
           /\ joinPeer' = [joinPeer EXCEPT
                              !.nodes = join_request_nodes(@, join_payload, joinNow)]
           /\ joinNodes' = join_network_nodes(joinNodes, LocalId, remote_info,
                                              join_result, "b", joinNow)
           /\ joinPoll' = [status |-> "polling", target_id |-> "b"]
    /\ UNCHANGED joinNow
    /\ PollOnly

\* the operator of b approves a
PollApprove ==
    /\ LocalId \in DOMAIN joinPeer.nodes
    /\ joinPeer' = [joinPeer EXCEPT
                       !.nodes = approve_node_result(@, "b", LocalId, joinNow).nodes]
    /\ UNCHANGED <<joinNow, joinNodes, joinPoll>>
    /\ PollOnly

\* the operator of b kicks a
PollKick ==
    /\ LocalId \in DOMAIN joinPeer.nodes
    /\ joinPeer' = [joinPeer EXCEPT
                       !.nodes = kick_node_result(@, "b", LocalId, joinNow).nodes]
    /\ UNCHANGED <<joinNow, joinNodes, joinPoll>>
    /\ PollOnly

\* _join_poll_loop: one poll of b, answered by join_status; an answer that
\* is not 200 raises and the loop goes on
PollAnswer ==
    /\ joinPoll.status = "polling"
    /\ joinPoll.target_id = "b"
    /\ LET data == join_status_response(joinPeer.nodes, LocalId,
                                        PublicKeyOf(LocalId))
       IN  /\ joinPeer' = [joinPeer EXCEPT !.tick = 1 - @, !.answer = data]
           /\ IF data.status = "trusted"
              THEN /\ joinNodes' = join_poll_nodes(joinNodes, LocalId,
                                      joinPoll.target_id, data.nodes)
                   /\ joinPoll' = [joinPoll EXCEPT !.status = "trusted"]
              ELSE IF data.status = "kicked"
              THEN /\ joinPoll' = [joinPoll EXCEPT !.status = "kicked"]
                   /\ UNCHANGED joinNodes
              ELSE UNCHANGED <<joinNodes, joinPoll>>
    /\ UNCHANGED joinNow
    /\ PollOnly

\* _join_poll_loop: one poll that fails (b does not answer in time): the
\* exception is caught and the loop goes on
PollFail ==
    /\ joinPoll.status = "polling"
    /\ joinPoll.target_id = "b"
    /\ joinPeer' = [joinPeer EXCEPT
                       !.tick = 1 - @,
                       !.answer = [status |-> "error", nodes |-> EmptyDoc]]
    /\ UNCHANGED <<joinNow, joinNodes, joinPoll>>
    /\ PollOnly

NextPoll ==
    \/ JoinTick
    \/ JoinRestart
    \/ PollJoin
    \/ PollApprove
    \/ PollKick
    \/ PollAnswer
    \/ PollFail

\* b stays reachable: the poll loop of a gets its answer again and again
PollFairness == WF_vars(PollAnswer)

(***************************************************************************)
(* The signed endpoints peer_sync, peer_heartbeat and chat_push of node    *)
(* "a", each with all that its handler writes: the four documents, the     *)
(* relay task queue of the task service and the messages handed to the     *)
(* chat hub for the local subscribers.  sync_meta.json is kept beside      *)
(* them.  The registry holds "a", the trusted peer "b" and a node "c" that *)
(* is pending, waiting for approval or kicked; "d" has no record.  A       *)
(* request is signed by its sender with sign_request and reaches the node  *)
(* as sent, or with one header or the body replaced on the way.            *)
(***************************************************************************)
MaxGateTime  == 61
MaxBroadcast == 2

GateSenders == {"b", "c", "d"}

\* a payload that names its sender and carries one record of each document
GateBody(id) ==
    [node_id  |-> id,
     since    |-> 0,
     nodes    |-> [d |-> [AuthRecord("d", TRUSTED) EXCEPT !.registered_at = 1]],
     states   |-> [d |-> [node_id |-> "d", status |-> "online", last_seen |-> 1]],
     chat     |-> <<[id |-> "r1", timestamp |-> 1]>>,
     snippets |-> <<[id |-> "s1", created_at |-> 1, updated_at |-> 1,
                     title |-> "t1"]>>,
     message  |-> [id |-> "r1", timestamp |-> 1]]

GateOtherBody(body) == GateBody(IF body.node_id = "b" THEN "d" ELSE "b")

\* the request as the network may deliver it
GateOnWire(req) ==
    {req,
     [req EXCEPT !.id = ""],
     [req EXCEPT !.ts = TsMissing],
     [req EXCEPT !.hash = NoHash],
     [req EXCEPT !.hash = Sha256(GateOtherBody(req.body))],
     [req EXCEPT !.sig = NoSig],
     [req EXCEPT !.body = GateOtherBody(req.body)]}

GateRequests(now) ==
    UNION {GateOnWire(Request(sign_request(s, GateBody(s), t), GateBody(s))) :
             s \in GateSenders, t \in {0, now}}

GateDocs(trust_c) ==
    [nodes     |-> [id \in {"a", "b", "c"} |->
                      AuthRecord(id, CASE id = "a" -> SELF
                                       [] id = "b" -> TRUSTED
                                       [] OTHER    -> trust_c)],
     states    |-> [b |-> [node_id |-> "b", status |-> "online", last_seen |-> 0]],
     chat      |-> <<[id |-> "m0", timestamp |-> 0]>>,
     snippets  |-> <<>>,
     sync_meta |-> [b |-> [last_sync_time |-> 0]],
     tasks     |-> [b |-> <<"t1">>],
     broadcast |-> <<>>]

NoDelivery == [endpoint |-> "", req |-> NoRequest, status |-> 0, reason |-> ""]

InitGate ==
    /\ gateNow = 0
    /\ \E trust_c \in {PENDING, WAITING_APPROVAL, KICKED} :
          gateStore = GateDocs(trust_c)
    /\ gateLast = NoDelivery

\* PeerService._find_new_messages
find_new_messages(old_chat, merged_chat) ==
    LET old_ids == {Get(old_chat[i], "id", "") : i \in DOMAIN old_chat} \ {""}
        New(m)  == Get(m, "id", "") # "" /\ Get(m, "id", "") \notin old_ids
    IN  SelectSeq(merged_chat, New)

\* peer_sync after the verification: handle_sync and its chat hub notice
gate_sync(gate, data) ==
    LET merged == handle_sync_store(gate, data)
    IN  [gate EXCEPT !.nodes = merged.nodes, !.states = merged.states,
                     !.chat = merged.chat, !.snippets = merged.snippets,
                     !.broadcast = @ \o find_new_messages(gate.chat, merged.chat)]

\* peer_heartbeat after the verification: handle_heartbeat, which hands the
\* relay its queued tasks (TaskService.get_pending_tasks_for_relay)
gate_heartbeat(gate, data, now) ==
    LET written == handle_heartbeat_store(gate, data, now)
    IN  [gate EXCEPT !.nodes = written.nodes, !.states = written.states,
                     !.tasks = Drop(@, data.node_id)]

\* chat_push after the verification
gate_chat_push(gate, data) ==
    LET msg == Get(data, "message", [id |-> ""])
    IN  IF Get(msg, "id", "") = "" THEN gate
        ELSE [gate EXCEPT !.chat = push_message(@, msg),
                          !.broadcast = Append(@, msg)]

gate_handler(endpoint, gate, data, now) ==
    CASE endpoint = "sync"      -> gate_sync(gate, data)
      [] endpoint = "heartbeat" -> gate_heartbeat(gate, data, now)
      [] OTHER                  -> gate_chat_push(gate, data)

\* the handler run before the request is verified
peer_endpoint_handler_first(endpoint, req, gate, now) ==
    LET reason == verify_node_signature(req, gate.nodes, now)
    IN  [status |-> IF reason # "ok" THEN 403 ELSE 200,
         reason |-> IF reason # "ok" THEN reason ELSE "",
         gate   |-> gate_handler(endpoint, gate, req.body, now)]

\* peer_sync, peer_heartbeat, chat_push: the answer and what is stored
peer_endpoint(endpoint, req, gate, now) ==
    LET reason == verify_node_signature(req, gate.nodes, now)
    IN  IF reason # "ok"
        THEN [status |-> 403, reason |-> reason, gate |-> gate]
        ELSE [status |-> 200, reason |-> "",
              gate |-> gate_handler(endpoint, gate, req.body, now)]

GateTick ==
    /\ \E d \in TickSteps :
          /\ gateNow + d <= MaxGateTime
          /\ gateNow' = gateNow + d
    /\ UNCHANGED <<gateStore, gateLast>>
    /\ GateOnly

GateDeliverOf(endpoint, req) ==
    LET result == peer_endpoint(endpoint, req, gateStore, gateNow)
    IN  /\ UNCHANGED gateNow
        /\ Len(result.gate.broadcast) <= MaxBroadcast
        /\ gateStore' = result.gate
        /\ gateLast' = [endpoint |-> endpoint, req |-> req,
                        status |-> result.status, reason |-> result.reason]
        /\ GateOnly

\* a request reaches one of the three endpoints
GateDeliver ==
    \E endpoint \in Endpoints, req \in GateRequests(gateNow) :
        GateDeliverOf(endpoint, req)

NextGate ==
    \/ GateTick
    \/ GateDeliver

(***************************************************************************)
(* ChatHub: the list _connections under chat_websocket, which adds a       *)
(* socket after accept and removes it when its handler ends, and under     *)
(* broadcast, which walks the list and awaits one send per socket.  A      *)
(* task runs from one await to the next without interruption; the walk of  *)
(* `for ws in self._connections` is the list iterator of Python: it keeps  *)
(* an index into the live list and stops when the index reaches the        *)
(* length the list has at that moment.  Every WebSocket object is added    *)
(* once.  A send to a socket the client has closed raises.                 *)
(***************************************************************************)
MaxHubCalls == 2

Sockets  == {"w1", "w2", "w3"}
HubCalls == 1..MaxHubCalls

HubOnly == UNCHANGED <<idVars, fsVars, opVars, gateVars, joinVars, docVars,
                       mrgVars, algVars, authVars, deltaVars, regVars,
                       schedVars, netVars>>

\* one call of broadcast: where it is, the index of its list iterator, the
\* socket of the send it awaits, its disconnected list, the sockets whose
\* send returned, and the sockets in the list ever since the call began
NoBroadcast ==
    [pc |-> "idle", index |-> 0, ws |-> "", disconnected |-> <<>>,
     sent |-> {}, stayed |-> {}]

IdleHub ==
    [connections |-> <<>>, accepted |-> {}, closed |-> {},
     calls |-> [b \in HubCalls |-> NoBroadcast]]

InitHub == chatHub = IdleHub

Listed(connections) == {connections[i] : i \in DOMAIN connections}

\* ChatHub.add
add(connections, ws) == Append(connections, ws)

\* ChatHub.remove: list.remove takes the first occurrence out
remove(connections, ws) ==
    IF ws \in Listed(connections)
    THEN LET i == CHOOSE k \in DOMAIN connections :
                     /\ connections[k] = ws
                     /\ \A j \in 1..(k - 1) : connections[j] # ws
         IN  SubSeq(connections, 1, i - 1)
                \o SubSeq(connections, i + 1, Len(connections))
    ELSE connections

RECURSIVE remove_all(_, _)
remove_all(connections, disconnected) ==
    IF disconnected = <<>> THEN connections
    ELSE remove_all(remove(connections, Head(disconnected)), Tail(disconnected))

\* the calls in progress no longer count a socket that left the list
Left(calls, gone) ==
    [b \in HubCalls |->
        IF calls[b].pc = "sending"
        THEN [calls[b] EXCEPT !.stayed = @ \ gone]
        ELSE calls[b]]

\* the loop of broadcast from where it stands to its next await: the
\* iterator yields the socket at its index and the send is awaited, or it
\* is exhausted, the disconnected sockets are removed and the call returns
walk(hub, b, call) ==
    IF call.index < Len(hub.connections)
    THEN [hub EXCEPT !.calls[b] =
             [call EXCEPT !.pc = "sending", !.index = @ + 1,
                          !.ws = hub.connections[call.index + 1]]]
    ELSE LET kept == remove_all(hub.connections, call.disconnected)
             gone == Listed(hub.connections) \ Listed(kept)
         IN  [hub EXCEPT !.connections = kept,
                         !.calls = [Left(hub.calls, gone) EXCEPT ![b] =
                                      [call EXCEPT !.pc = "done", !.ws = "",
                                                   !.stayed = @ \ gone]]]

\* chat_websocket: accept, then chat_hub.add
HubConnect ==
    /\ \E ws \in Sockets \ chatHub.accepted :
          chatHub' = [chatHub EXCEPT !.connections = add(@, ws),
                                     !.accepted = @ \cup {ws}]
    /\ HubOnly

\* the client goes away: sends to the socket raise from now on
HubClose ==
    /\ \E ws \in chatHub.accepted \ chatHub.closed :
          chatHub' = [chatHub EXCEPT !.closed = @ \cup {ws}]
    /\ HubOnly

\* chat_websocket: receive_json raises WebSocketDisconnect, the finally
\* clause calls chat_hub.remove
HubHandlerExit ==
    /\ \E ws \in chatHub.closed \cap Listed(chatHub.connections) :
          chatHub' = [chatHub EXCEPT !.connections = remove(@, ws),
                                     !.calls = Left(@, {ws})]
    /\ HubOnly

\* broadcast or broadcast_messages is called and runs to its first await
HubBroadcast ==
    /\ \E b \in HubCalls :
          /\ chatHub.calls[b].pc = "idle"
          /\ \A c \in HubCalls : c < b => chatHub.calls[c].pc # "idle"
          /\ chatHub' =
                IF chatHub.connections = <<>>
                THEN [chatHub EXCEPT !.calls[b].pc = "done"]
                ELSE walk(chatHub, b,
                          [NoBroadcast EXCEPT
                              !.stayed = Listed(chatHub.connections)])
    /\ HubOnly

\* the awaited send_json returns or raises, and the loop goes on
HubSendEnds ==
    /\ \E b \in HubCalls :
          LET call == chatHub.calls[b]
          IN  /\ call.pc = "sending"
              /\ chatHub' =
                    walk(chatHub, b,
                         IF call.ws \in chatHub.closed
                         THEN [call EXCEPT !.disconnected = Append(@, call.ws)]
                         ELSE [call EXCEPT !.sent = @ \cup {call.ws}])
    /\ HubOnly

NextHub ==
    \/ HubConnect
    \/ HubClose
    \/ HubHandlerExit
    \/ HubBroadcast
    \/ HubSendEnds

(***************************************************************************)
(* NodeIdentity under failover: promote_to_temp_full and                   *)
(* demote_from_temp_full in any order, each with its write of the node's   *)
(* own record in nodes.json.                                               *)
(***************************************************************************)
MaxIdTime  == 3
MaxIdCalls == 5

IdOnly == UNCHANGED <<hubVars, fsVars, opVars, gateVars, joinVars, docVars,
                      mrgVars, algVars, authVars, deltaVars, regVars,
                      schedVars, netVars>>

\* _original_mode None is ""
NoIdentity == [now |-> 0, mode |-> "", original_mode |-> "",
               is_temp_full |-> FALSE, nodes |-> EmptyDoc,
               call |-> "", calls |-> 0]

\* _update_self_mode_in_store: the node's own record takes the mode and
\* a new registered_at
update_self_mode_in_store(nodes, self_id, now, m) ==
    IF self_id \in DOMAIN nodes
    THEN Put(nodes, self_id,
             Put(Put(nodes[self_id], "mode", m), "registered_at", now))
    ELSE nodes

\* promote_to_temp_full
promote_to_temp_full(id) ==
    IF id.mode = "full" THEN id
    ELSE [id EXCEPT !.original_mode = id.mode,
                    !.mode = "temp_full",
                    !.is_temp_full = TRUE,
                    !.nodes = update_self_mode_in_store(@, LocalId, id.now,
                                                        "temp_full")]

\* demote_from_temp_full: "self._original_mode or NodeMode.RELAY"
demote_from_temp_full(id) ==
    IF ~id.is_temp_full THEN id
    ELSE LET back == IF id.original_mode # "" THEN id.original_mode
                     ELSE "relay"
         IN  [id EXCEPT !.mode = back,
                        !.is_temp_full = FALSE,
                        !.original_mode = "",
                        !.nodes = update_self_mode_in_store(@, LocalId,
                                                            id.now, back)]

InitMode ==
    \E m \in {"relay", "full"} :
       idn = [NoIdentity EXCEPT
                !.now = 1, !.mode = m,
                !.nodes = [k \in {LocalId} |->
                              [NodeRecord(LocalId, SELF, 1) EXCEPT !.mode = m]]]

IdTick ==
    /\ idn.now < MaxIdTime
    /\ idn' = [idn EXCEPT !.now = @ + 1]
    /\ IdOnly

IdPromote ==
    /\ idn.calls < MaxIdCalls
    /\ idn' = [promote_to_temp_full(idn) EXCEPT !.call = "promote",
                                                !.calls = @ + 1]
    /\ IdOnly

IdDemote ==
    /\ idn.calls < MaxIdCalls
    /\ idn' = [demote_from_temp_full(idn) EXCEPT !.call = "demote",
                                                 !.calls = @ + 1]
    /\ IdOnly

NextMode ==
    \/ IdTick
    \/ IdPromote
    \/ IdDemote

(***************************************************************************)
(* FileStore under threads: every thread makes one call, update(name, fn)  *)
(* or write(name, v), and takes it step by step: _get_lock under           *)
(* _global_lock, the lock of the file, the read, the write of the          *)
(* temporary file with its rename, the release.  A file holds a sequence;  *)
(* the updater of thread t appends t, its write stores a value of its own. *)
(***************************************************************************)
MaxThreads == 3

Threads == 1 .. MaxThreads
FsNames == {"nodes.json", "chat.json"}

NoFsCall == [kind |-> "", name |-> "", pc |-> "idle", lock |-> "", data |-> <<>>,
             ret |-> <<>>]

FsOnly == UNCHANGED <<idVars, hubVars, opVars, gateVars, joinVars, docVars, mrgVars, algVars,
                      authVars, deltaVars, regVars, schedVars, netVars>>

\* the updater handed to update by thread t, and the value it hands to write
updater(t, data) == Append(data, t)
written_value(t) == <<MaxThreads + t>>

\* a lock made anew for every call
lock_per_call(filename, t) == <<filename, t>>

\* the key under which _get_lock keeps the lock of a call: the file name
lock_key(filename, t) == filename

\* _get_lock under _global_lock: the lock of the key, created when missing
get_lock(locks, key) ==
    IF key \in DOMAIN locks THEN locks ELSE Put(locks, key, 0)

InitStore ==
    /\ fsStore = [files |-> [n \in FsNames |-> <<>>], locks |-> EmptyDoc,
                  global |-> 0]
    /\ fsCalls \in [Threads -> {[NoFsCall EXCEPT !.kind = k, !.name = n,
                                                 !.pc = "start"] :
                                   k \in {"update", "write"}, n \in FsNames}]

\* "with self._global_lock" of _get_lock
FsEnter(t) ==
    /\ fsCalls[t].pc = "start"
    /\ fsStore.global = 0
    /\ fsStore' = [fsStore EXCEPT !.global = t]
    /\ fsCalls' = [fsCalls EXCEPT ![t].pc = "lookup"]
    /\ FsOnly

\* the body of _get_lock and the release of _global_lock
FsLookup(t) ==
    /\ fsCalls[t].pc = "lookup"
    /\ LET key == lock_key(fsCalls[t].name, t)
       IN  /\ fsStore' = [fsStore EXCEPT !.locks = get_lock(@, key),
                                         !.global = 0]
           /\ fsCalls' = [fsCalls EXCEPT ![t].pc = "wait", ![t].lock = key]
    /\ FsOnly

\* "with lock" of update and write
FsAcquire(t) ==
    /\ fsCalls[t].pc = "wait"
    /\ fsStore.locks[fsCalls[t].lock] = 0
    /\ fsStore' = [fsStore EXCEPT !.locks[fsCalls[t].lock] = t]
    /\ fsCalls' = [fsCalls EXCEPT ![t].pc = "locked"]
    /\ FsOnly

\* update reads the file
FsRead(t) ==
    /\ fsCalls[t].pc = "locked"
    /\ fsCalls[t].kind = "update"
    /\ fsCalls' = [fsCalls EXCEPT ![t].pc = "read",
                                  ![t].data = fsStore.files[fsCalls[t].name]]
    /\ UNCHANGED fsStore
    /\ FsOnly

\* update applies the updater; update and write put the temporary file in
\* the place of the file
FsWrite(t) ==
    /\ \/ fsCalls[t].kind = "update" /\ fsCalls[t].pc = "read"
       \/ fsCalls[t].kind = "write" /\ fsCalls[t].pc = "locked"
    /\ LET data == IF fsCalls[t].kind = "update"
                   THEN updater(t, fsCalls[t].data)
                   ELSE written_value(t)
       IN  /\ fsStore' = [fsStore EXCEPT !.files[fsCalls[t].name] = data]
           /\ fsCalls' = [fsCalls EXCEPT ![t].pc = "written", ![t].data = data]
    /\ FsOnly

\* the lock is released and the call returns: update the data it wrote
FsReturn(t) ==
    /\ fsCalls[t].pc = "written"
    /\ fsStore' = [fsStore EXCEPT !.locks[fsCalls[t].lock] = 0]
    /\ fsCalls' = [fsCalls EXCEPT
                      ![t].pc = "done",
                      ![t].ret = IF fsCalls[t].kind = "update"
                                 THEN fsCalls[t].data ELSE <<>>]
    /\ FsOnly

NextStore ==
    \E t \in Threads :
       \/ FsEnter(t)
       \/ FsLookup(t)
       \/ FsAcquire(t)
       \/ FsRead(t)
       \/ FsWrite(t)
       \/ FsReturn(t)

(***************************************************************************)
(* The scheduler: the main loop held in _sync_task, failover from inside   *)
(* a loop, the recovery watcher and restart_sync.  A task that is          *)
(* cancelled gets CancelledError at the await it is suspended in: at an    *)
(* await of the loop body the loop breaks and the task exits; at the       *)
(* "await self._sync_task" of _handle_all_peers_failure the error is       *)
(* caught and the caller goes on.                                          *)
(***************************************************************************)
MaxTasks     == 5
MaxRestarts  == 2
max_failures == 3

TaskIds == 1 .. MaxTasks

NoTask == [kind |-> "", status |-> "unborn", must_cancel |-> FALSE,
           pc |-> "loop", awaiting |-> 0]

\* the loop start() and restart_sync() create for the node's role
LoopFor(m, c) ==
    IF m \in {"full", "temp_full"}
    THEN IF c THEN "gossip" ELSE "active"
    ELSE "heartbeat"

\* asyncio.create_task: the next task
NewTask(ts) == CHOOSE t \in TaskIds :
                  /\ ts[t].status = "unborn"
                  /\ \A u \in TaskIds : ts[u].status = "unborn" => t <= u

CanCreate(ts) == \E t \in TaskIds : ts[t].status = "unborn"

create_task(ts, kind) ==
    [ts EXCEPT ![NewTask(ts)] = [NoTask EXCEPT !.kind = kind, !.status = "live"]]

\* Task.cancel(): a request, delivered when the task next resumes
cancel(ts, t) ==
    IF t # 0 /\ ts[t].status = "live"
    THEN [ts EXCEPT ![t].must_cancel = TRUE]
    ELSE ts

\* a loop between two awaits of its body, no cancellation pending
Iterating(t) ==
    /\ tasks[t].status = "live"
    /\ ~tasks[t].must_cancel

\* the hubs a round can discover, in the order of nodes.json
SchedPeers == <<"h1", "h2">>

Discoveries == {SubSeq(SchedPeers, 1, n) : n \in 0 .. Len(SchedPeers)}

PeersOf(peers) == {peers[i] : i \in DOMAIN peers}

NoRound == [kind |-> "", peers |-> <<>>, accepts |-> {}, sent |-> <<>>,
            any_success |-> FALSE]

\* a round that contacts every peer whatever the answers
round_of_all(peers, accepts) ==
    [peers |-> peers, accepts |-> accepts, sent |-> peers,
     any_success |-> PeersOf(peers) \cap accepts # {}]

\* the for loop of _heartbeat_loop: _send_heartbeat to the peers in turn,
\* break at the first that returns True (an answer with accepted true)
heartbeat_round(peers, accepts) ==
    LET hits == {i \in DOMAIN peers : peers[i] \in accepts}
        stop == IF hits = {} THEN Len(peers)
                ELSE CHOOSE i \in hits : \A j \in hits : i <= j
    IN  [peers |-> peers, accepts |-> accepts,
         sent |-> SubSeq(peers, 1, stop),
         any_success |-> hits # {}]

\* the for loop of _active_sync_loop: _do_active_sync with every peer
active_round(peers, accepts) == round_of_all(peers, accepts)

\* the round of the loop of a kind, with the peers it discovered and the
\* peers that accept for as long as the round lasts
round_result(kind, peers, accepts) ==
    LET r == IF kind = "heartbeat" THEN heartbeat_round(peers, accepts)
             ELSE active_round(peers, accepts)
    IN  [kind |-> kind, peers |-> r.peers, accepts |-> r.accepts,
         sent |-> r.sent, any_success |-> r.any_success]

\* a loop that can begin a round
AtRound(t) ==
    /\ Iterating(t)
    /\ tasks[t].pc = "loop"
    /\ tasks[t].kind \in {"active", "heartbeat"}

InitSched ==
    /\ mode \in {"full", "relay"}
    /\ connectable \in BOOLEAN
    /\ tasks = [t \in TaskIds |->
                  IF t = 1
                  THEN [NoTask EXCEPT !.kind = LoopFor(mode, connectable),
                                      !.status = "live"]
                  ELSE NoTask]
    /\ sync_task = 1
    /\ self_record_mode = mode
    /\ heartbeat_failures = 0
    /\ watchers = 0
    /\ restarts = [c \in 1 .. MaxRestarts |-> [pc |-> "idle", awaiting |-> 0]]
    /\ last_round = NoRound

\* a round of _active_sync_loop or _heartbeat_loop that discovers no peer:
\* sleep and continue
RoundIdle ==
    /\ \E t \in TaskIds :
          /\ AtRound(t)
          /\ last_round' = round_result(tasks[t].kind, <<>>, {})
    /\ UNCHANGED <<mode, self_record_mode, connectable, tasks, sync_task, heartbeat_failures,
                   watchers, restarts>>
    /\ SchedOnly

\* a round of _active_sync_loop or _heartbeat_loop in which a peer answers
RoundOk ==
    /\ \E t \in TaskIds, peers \in Discoveries \ {<<>>} :
          \E accepts \in SUBSET PeersOf(peers) :
             LET r == round_result(tasks[t].kind, peers, accepts)
             IN  /\ AtRound(t)
                 /\ r.any_success
                 /\ last_round' = r
    /\ heartbeat_failures' = 0
    /\ UNCHANGED <<mode, self_record_mode, connectable, tasks, sync_task, watchers, restarts>>
    /\ SchedOnly

\* a round in which every peer fails; at max_failures the loop calls
\* _handle_all_peers_failure, which for a relay promotes the node, cancels
\* _sync_task and awaits it
RoundFail ==
    /\ \E t \in TaskIds, peers \in Discoveries \ {<<>>} :
          /\ AtRound(t)
          /\ ~round_result(tasks[t].kind, peers, {}).any_success
          /\ last_round' = round_result(tasks[t].kind, peers, {})
          /\ IF heartbeat_failures + 1 < max_failures
             THEN /\ heartbeat_failures' = heartbeat_failures + 1
                  /\ UNCHANGED <<mode, self_record_mode, tasks>>
             ELSE /\ heartbeat_failures' = 0
                  /\ IF mode = "relay"
                     THEN /\ mode' = "temp_full"
                          /\ self_record_mode' = "temp_full"
                          /\ tasks' = [cancel(tasks, sync_task) EXCEPT
                                         ![t].pc = "failover",
                                         ![t].awaiting = sync_task]
                     ELSE UNCHANGED <<mode, self_record_mode, tasks>>
    /\ UNCHANGED <<connectable, sync_task, watchers, restarts>>
    /\ SchedOnly

\* _handle_all_peers_failure after its await: the awaited task has exited,
\* or the CancelledError raised at the await was swallowed
FailoverResume ==
    /\ \E t \in TaskIds :
          /\ tasks[t].status = "live"
          /\ tasks[t].pc = "failover"
          /\ \/ tasks[t].must_cancel
             \/ tasks[t].awaiting = 0
             \/ tasks[tasks[t].awaiting].status = "exited"
          /\ CanCreate(tasks)
          /\ LET resumed == [tasks EXCEPT ![t].must_cancel = FALSE,
                                          ![t].pc = "loop",
                                          ![t].awaiting = 0]
             IN  /\ sync_task' = NewTask(resumed)
                 /\ tasks' = create_task(resumed,
                                IF connectable THEN "gossip" ELSE "active")
          /\ watchers' = watchers + 1
    /\ last_round' = NoRound
    /\ UNCHANGED <<mode, self_record_mode, connectable, heartbeat_failures, restarts>>
    /\ SchedOnly

\* CancelledError reaches a loop at an await of its body: break
DeliverCancel ==
    /\ \E t \in TaskIds :
          /\ tasks[t].status = "live"
          /\ tasks[t].pc = "loop"
          /\ tasks[t].must_cancel
          /\ tasks' = [tasks EXCEPT ![t].status = "exited",
                                    ![t].must_cancel = FALSE]
    /\ last_round' = NoRound
    /\ UNCHANGED <<mode, self_record_mode, connectable, sync_task, heartbeat_failures, watchers,
                   restarts>>
    /\ SchedOnly

\* _watch_full_recovery sees a peer answer the handshake: demote, cancel
\* _sync_task without awaiting it, create the loop of the restored mode
WatchRecover ==
    /\ watchers > 0
    /\ mode = "temp_full"
    /\ CanCreate(tasks)
    /\ mode' = "relay"
    /\ self_record_mode' = "relay"
    /\ LET cancelled == cancel(tasks, sync_task)
       IN  /\ sync_task' = NewTask(cancelled)
           /\ tasks' = create_task(cancelled, "heartbeat")
    /\ watchers' = watchers - 1
    /\ last_round' = NoRound
    /\ UNCHANGED <<connectable, heartbeat_failures, restarts>>
    /\ SchedOnly

\* restart_sync up to "await self._sync_task"
RestartBegin ==
    /\ \E c \in DOMAIN restarts :
          /\ restarts[c].pc = "idle"
          /\ restarts' = [restarts EXCEPT ![c] =
                            [pc |-> "awaiting", awaiting |-> sync_task]]
    /\ tasks' = cancel(tasks, sync_task)
    /\ last_round' = NoRound
    /\ UNCHANGED <<mode, self_record_mode, connectable, sync_task, heartbeat_failures, watchers>>
    /\ SchedOnly

\* restart_sync after the await
RestartResume ==
    /\ \E c \in DOMAIN restarts :
          /\ restarts[c].pc = "awaiting"
          /\ \/ restarts[c].awaiting = 0
             \/ tasks[restarts[c].awaiting].status = "exited"
          /\ restarts' = [restarts EXCEPT ![c] = [pc |-> "done", awaiting |-> 0]]
    /\ CanCreate(tasks)
    /\ heartbeat_failures' = 0
    /\ sync_task' = NewTask(tasks)
    /\ tasks' = create_task(tasks, LoopFor(mode, connectable))
    /\ last_round' = NoRound
    /\ UNCHANGED <<mode, self_record_mode, connectable, watchers>>
    /\ SchedOnly

NextSched ==
    \/ RoundIdle
    \/ RoundOk
    \/ RoundFail
    \/ FailoverResume
    \/ DeliverCancel
    \/ WatchRecover
    \/ RestartBegin
    \/ RestartResume

(***************************************************************************)
(* Two full, connectable nodes a and b that trust each other and run the   *)
(* gossip loop against each other; b also serves a third trusted node c,   *)
(* which is not connectable and syncs with b alone.                        *)
(* A loop wakes from its sleep and its round is due; the exchange of the   *)
(* round, when it succeeds, is taken in one step: the request is built     *)
(* from the caller's cursor and documents, the peer's handle_sync merges   *)
(* it and answers, the caller merges the answer and sets its cursor.       *)
(* Every reading of the clock returns a later time than the one before,    *)
(* up to MaxNetTime, where the clock stays; local changes happen before.   *)
(***************************************************************************)
MaxNetTime    == 5
MaxNetChanges == 2

NetNodes == {"a", "b"}

Other(n) == IF n = "a" THEN "b" ELSE "a"

InitNet ==
    /\ netNow = 2
    /\ netDocs = [n \in NetNodes |->
                    Store([k \in NetNodes \cup (IF n = "b" THEN {"c"} ELSE {}) |->
                              IF k = "c"
                              THEN [NodeRecord("c", TRUSTED, 1) EXCEPT
                                      !.connectable = FALSE]
                              ELSE NodeRecord(k, IF k = n THEN SELF ELSE TRUSTED, 1)],
                          EmptyDoc, <<>>, <<>>)]
    /\ netMeta = [n \in NetNodes |-> EmptyDoc]
    /\ netChanges = MaxNetChanges
    /\ netDue = {}

\* time.time(): the clock after a reading
Later(t) == IF t < MaxNetTime THEN t + 1 ELSE t

\* POST /chat/messages at node n
NetSendMessage(n) ==
    /\ netChanges > 0
    /\ netNow < MaxNetTime
    /\ \A i \in DOMAIN netDocs[n].chat : netDocs[n].chat[i].id # n
    /\ netDocs' = [netDocs EXCEPT
                     ![n].chat = save_message(@, [id |-> n, timestamp |-> netNow])]
    /\ netChanges' = netChanges - 1
    /\ netNow' = Later(netNow)
    /\ UNCHANGED <<netMeta, netDue>>
    /\ NetOnly

\* what c holds that b may lack: a message c stored at time 1, and the
\* record of a node d that c's operator approved at time 1
ThirdDeltas ==
    {Store(EmptyDoc, EmptyDoc, <<[id |-> "c", timestamp |-> 1]>>, <<>>),
     Store([k \in {"d"} |-> [NodeRecord("d", TRUSTED, 1) EXCEPT
                               !.connectable = FALSE]],
           EmptyDoc, <<>>, <<>>)}

\* POST /peer/sync at b from c
NetSyncFromThird ==
    /\ netChanges > 0
    /\ Verified("c", netDocs["b"].nodes, netNow)
    /\ \E delta \in ThirdDeltas :
          netDocs' = [netDocs EXCEPT !["b"] =
                        handle_sync_store(@,
                           [node_id |-> "c", since |-> 0, nodes |-> delta.nodes,
                            states |-> delta.states, chat |-> delta.chat,
                            snippets |-> delta.snippets])]
    /\ netChanges' = netChanges - 1
    /\ UNCHANGED <<netNow, netMeta, netDue>>
    /\ NetOnly

\* _gossip_loop at n: asyncio.sleep(interval) returns
NetRound(n) ==
    /\ n \notin netDue
    /\ netDue' = netDue \cup {n}
    /\ UNCHANGED <<netNow, netDocs, netMeta, netChanges>>
    /\ NetOnly

\* _sync_with_peer at n against p, the POST failing
NetSyncFail(n, p) ==
    /\ netChanges > 0
    /\ n \in netDue
    /\ p \in discover_trusted_connectable_peers(netDocs[n].nodes, n)
    /\ netDocs' = [netDocs EXCEPT ![n].states = mark_node_offline(@, p)]
    /\ netChanges' = netChanges - 1
    /\ netDue' = netDue \ {n}
    /\ UNCHANGED <<netNow, netMeta>>
    /\ NetOnly

\* _update_self_state at n
NetSelfState(n) ==
    /\ netChanges > 0
    /\ netNow < MaxNetTime
    /\ netDocs' = [netDocs EXCEPT
                     ![n].states = Put(@, n, StateRecord(n, "online", netNow))]
    /\ netChanges' = netChanges - 1
    /\ netNow' = Later(netNow)
    /\ UNCHANGED <<netMeta, netDue>>
    /\ NetOnly

\* _sync_with_peer at n against p, the POST answered by p's handle_sync
NetSync(n, p) ==
    /\ n \in netDue
    /\ p \in discover_trusted_connectable_peers(netDocs[n].nodes, n)
    /\ Verified(n, netDocs[p].nodes, netNow)
    /\ \E last_sync \in {get_peer_sync_time(netMeta[n], p)} :
       \E delta \in {filter_store_since(netDocs[n], last_sync)} :
       \E request \in {[node_id |-> n, since |-> last_sync,
                        nodes |-> delta.nodes, states |-> delta.states,
                        chat |-> delta.chat, snippets |-> delta.snippets]} :
       \E served \in {handle_sync_store(netDocs[p], request)} :
       \E data \in {filter_store_since(served, request.since)} :
       \E merged \in {sync_merge(netDocs[n], data)} :
          /\ netDocs' = [netDocs EXCEPT ![p] = served, ![n] = merged]
          /\ netMeta' = [netMeta EXCEPT
                           ![n] = set_peer_sync_time(@, p, netNow)]
    /\ netDue' = netDue \ {n}
    /\ netNow' = Later(netNow)
    /\ UNCHANGED netChanges
    /\ NetOnly

NetLocalChange ==
    \E n \in NetNodes : NetSendMessage(n) \/ NetSelfState(n)

NetWake ==
    \E n \in NetNodes : NetRound(n)

NetFailure ==
    \E n \in NetNodes : NetSyncFail(n, Other(n))

NetExchange ==
    \E n \in NetNodes : NetSync(n, Other(n))

NextNet ==
    \/ NetLocalChange
    \/ NetSyncFromThird
    \/ NetWake
    \/ NetFailure
    \/ NetExchange

\* the event loop resumes every task that is ready: a cancellation is
\* delivered, an await of a finished task returns, the recovery watcher,
\* whose handshake is answered for as long as the node is temp_full, wakes
\* from its sleep, and the loops that run wake for round after round
SchedFairness ==
    /\ WF_vars(RoundIdle \/ RoundOk \/ RoundFail)
    /\ WF_vars(DeliverCancel)
    /\ WF_vars(FailoverResume)
    /\ WF_vars(RestartResume)
    /\ WF_vars(WatchRecover)

\* each loop keeps waking for its next round
NetFairness ==
    \A n \in NetNodes : WF_vars(NetRound(n))

(***************************************************************************)
(* Specifications.  Each one runs one part of the model and holds the      *)
(* variables of the other parts at their idle values.                      *)
(***************************************************************************)
AlgAtRest ==
    /\ algIn = [x |-> EmptyDoc, y |-> EmptyDoc, z |-> EmptyDoc]
    /\ algOut = AlgIdle

DocAtRest ==
    /\ docNow = 0
    /\ docStore = EmptyStore
    /\ docOps = 0
    /\ docReq = NoDocRequest

JoinAtRest ==
    /\ joinNow = 0
    /\ joinNodes = EmptyDoc
    /\ joinPoll = [status |-> "", target_id |-> ""]
    /\ joinPeer = NoPeer

MrgAtRest ==
    /\ mrgIn = [kind |-> "states", x |-> EmptyDoc, y |-> EmptyDoc, z |-> EmptyDoc]
    /\ mrgOut = MrgIdle(EmptyDoc)

AuthAtRest ==
    /\ authNodes = EmptyDoc
    /\ authNow = 0
    /\ wire = [present |-> FALSE, req |-> NoRequest]
    /\ accepted = NotAccepted

IdAtRest == idn = NoIdentity

HubAtRest == chatHub = IdleHub

FsAtRest ==
    /\ fsStore = [files |-> [n \in FsNames |-> <<>>], locks |-> EmptyDoc,
                  global |-> 0]
    /\ fsCalls = [t \in Threads |-> NoFsCall]

OpAtRest ==
    /\ opNow = 0
    /\ opNodes = [n \in OpRunners |-> EmptyDoc]
    /\ opLast = NoCall

GateAtRest ==
    /\ gateNow = 0
    /\ gateStore = [nodes |-> EmptyDoc, states |-> EmptyDoc, chat |-> <<>>,
                    snippets |-> <<>>, sync_meta |-> EmptyDoc,
                    tasks |-> EmptyDoc, broadcast |-> <<>>]
    /\ gateLast = NoDelivery

DeltaAtRest ==
    /\ dIn = [store |-> EmptyStore, now |-> 0,
              request |-> [node_id |-> "", since |-> 0, nodes |-> EmptyDoc,
                           states |-> EmptyDoc, chat |-> <<>>, snippets |-> <<>>]]
    /\ dOut = DeltaIdle

RegAtRest ==
    /\ clock = 0
    /\ identity = [mode |-> "full", connectable |-> TRUE]
    /\ docs = EmptyStore
    /\ sync_meta = EmptyDoc
    /\ exch = [v \in Vias |-> NoExchange]
    /\ scenario = "operator"

SchedAtRest ==
    /\ mode = "full"
    /\ self_record_mode = "full"
    /\ connectable = TRUE
    /\ tasks = [t \in TaskIds |-> NoTask]
    /\ sync_task = 0
    /\ heartbeat_failures = 0
    /\ watchers = 0
    /\ restarts = [c \in 1 .. MaxRestarts |-> [pc |-> "idle", awaiting |-> 0]]
    /\ last_round = NoRound

NetAtRest ==
    /\ netNow = 0
    /\ netDocs = [n \in NetNodes |-> EmptyStore]
    /\ netMeta = [n \in NetNodes |-> EmptyDoc]
    /\ netChanges = 0
    /\ netDue = {}

InitSpecAlg  == InitAlg /\ IdAtRest /\ HubAtRest /\ FsAtRest /\ OpAtRest /\ GateAtRest /\ JoinAtRest /\ DocAtRest /\ MrgAtRest /\ AuthAtRest /\ DeltaAtRest /\ RegAtRest /\ SchedAtRest
                /\ NetAtRest
NextAlg      == ApplyMergeNodes
SpecAlg      == InitSpecAlg /\ [][NextAlg]_vars

InitSpecTrust == InitTrust /\ IdAtRest /\ HubAtRest /\ FsAtRest /\ OpAtRest /\ GateAtRest /\ JoinAtRest /\ DocAtRest /\ MrgAtRest /\ AuthAtRest /\ DeltaAtRest /\ RegAtRest /\ SchedAtRest
                 /\ NetAtRest
SpecTrust     == InitSpecTrust /\ [][NextAlg]_vars

InitSpecMrg  == InitMrg /\ IdAtRest /\ HubAtRest /\ FsAtRest /\ OpAtRest /\ GateAtRest /\ JoinAtRest /\ DocAtRest /\ AlgAtRest /\ AuthAtRest /\ DeltaAtRest /\ RegAtRest
                /\ SchedAtRest /\ NetAtRest
SpecMrg      == InitSpecMrg /\ [][NextMrg]_vars

InitSpecDoc  == InitDoc({0}) /\ IdAtRest /\ HubAtRest /\ FsAtRest /\ OpAtRest /\ GateAtRest /\ JoinAtRest /\ MrgAtRest /\ AlgAtRest /\ AuthAtRest /\ DeltaAtRest
                /\ RegAtRest /\ SchedAtRest /\ NetAtRest
SpecDoc      == InitSpecDoc /\ [][NextDoc]_vars

\* the chat document at the cap and one message below it, under its writers
InitSpecCap  == InitDoc({max_messages - 1, max_messages}) /\ IdAtRest /\ HubAtRest /\ FsAtRest /\ OpAtRest /\ GateAtRest /\ JoinAtRest /\ MrgAtRest
                /\ AlgAtRest /\ AuthAtRest /\ DeltaAtRest /\ RegAtRest /\ SchedAtRest
                /\ NetAtRest
NextCap      == DocSend \/ DocPush \/ DocSync
SpecCap      == InitSpecCap /\ [][NextCap]_vars

InitSpecJoin == InitJoin /\ IdAtRest /\ HubAtRest /\ FsAtRest /\ OpAtRest /\ GateAtRest /\ DocAtRest /\ MrgAtRest /\ AlgAtRest /\ AuthAtRest
                /\ DeltaAtRest /\ RegAtRest /\ SchedAtRest /\ NetAtRest
SpecJoin     == InitSpecJoin /\ [][NextJoin]_vars

InitSpecPoll == InitPoll /\ IdAtRest /\ HubAtRest /\ FsAtRest /\ OpAtRest /\ GateAtRest /\ DocAtRest /\ MrgAtRest /\ AlgAtRest /\ AuthAtRest
                /\ DeltaAtRest /\ RegAtRest /\ SchedAtRest /\ NetAtRest

SpecPoll     == InitSpecPoll /\ [][NextPoll]_vars /\ PollFairness

InitSpecAuth == InitAuth /\ IdAtRest /\ HubAtRest /\ FsAtRest /\ OpAtRest /\ GateAtRest /\ JoinAtRest /\ DocAtRest /\ MrgAtRest /\ AlgAtRest /\ DeltaAtRest /\ RegAtRest /\ SchedAtRest
                /\ NetAtRest
SpecAuth     == InitSpecAuth /\ [][NextAuth]_vars

InitSpecGate == InitGate /\ IdAtRest /\ HubAtRest /\ FsAtRest /\ OpAtRest /\ JoinAtRest /\ DocAtRest /\ MrgAtRest /\ AlgAtRest /\ AuthAtRest
                /\ DeltaAtRest /\ RegAtRest /\ SchedAtRest /\ NetAtRest
SpecGate     == InitSpecGate /\ [][NextGate]_vars

InitSpecOps  == InitOps /\ IdAtRest /\ HubAtRest /\ FsAtRest /\ GateAtRest /\ JoinAtRest /\ DocAtRest /\ MrgAtRest /\ AlgAtRest
                /\ AuthAtRest /\ DeltaAtRest /\ RegAtRest /\ SchedAtRest /\ NetAtRest
SpecOps      == InitSpecOps /\ [][NextOps]_vars

InitSpecStore == InitStore /\ IdAtRest /\ HubAtRest /\ OpAtRest /\ GateAtRest /\ JoinAtRest /\ DocAtRest /\ MrgAtRest
                 /\ AlgAtRest /\ AuthAtRest /\ DeltaAtRest /\ RegAtRest /\ SchedAtRest
                 /\ NetAtRest
SpecStore     == InitSpecStore /\ [][NextStore]_vars

AllButIdAtRest ==
    /\ HubAtRest /\ FsAtRest /\ OpAtRest /\ GateAtRest /\ JoinAtRest /\ DocAtRest
    /\ MrgAtRest /\ AlgAtRest /\ AuthAtRest /\ DeltaAtRest /\ RegAtRest
    /\ SchedAtRest /\ NetAtRest

InitSpecHub == InitHub /\ IdAtRest /\ FsAtRest /\ OpAtRest /\ GateAtRest /\ JoinAtRest /\ DocAtRest /\ MrgAtRest /\ AlgAtRest /\ AuthAtRest /\ DeltaAtRest /\ RegAtRest /\ SchedAtRest /\ NetAtRest
SpecHub     == InitSpecHub /\ [][NextHub]_vars

InitSpecMode == InitMode /\ AllButIdAtRest
SpecMode     == InitSpecMode /\ [][NextMode]_vars

InitSpecPair == InitPair /\ IdAtRest /\ HubAtRest /\ FsAtRest /\ GateAtRest /\ JoinAtRest /\ DocAtRest /\ MrgAtRest /\ AlgAtRest
                /\ AuthAtRest /\ DeltaAtRest /\ RegAtRest /\ SchedAtRest /\ NetAtRest
SpecPair     == InitSpecPair /\ [][NextPair]_vars

InitSpecDelta == InitDelta /\ IdAtRest /\ HubAtRest /\ FsAtRest /\ OpAtRest /\ GateAtRest /\ JoinAtRest /\ DocAtRest /\ MrgAtRest /\ AlgAtRest /\ AuthAtRest /\ RegAtRest /\ SchedAtRest
                 /\ NetAtRest
SpecDelta     == InitSpecDelta /\ [][NextDelta]_vars

Init == InitReg /\ IdAtRest /\ HubAtRest /\ FsAtRest /\ OpAtRest /\ GateAtRest /\ JoinAtRest /\ DocAtRest /\ MrgAtRest /\ AlgAtRest /\ AuthAtRest /\ DeltaAtRest /\ SchedAtRest /\ NetAtRest
Spec == Init /\ [][Next]_vars

InitSpecGossip == InitGossip /\ IdAtRest /\ HubAtRest /\ FsAtRest /\ OpAtRest /\ GateAtRest /\ JoinAtRest /\ DocAtRest /\ MrgAtRest /\ AlgAtRest /\ AuthAtRest /\ DeltaAtRest /\ SchedAtRest /\ NetAtRest
SpecGossip == InitSpecGossip /\ [][NextGossip]_vars

InitSpecSched == InitSched /\ IdAtRest /\ HubAtRest /\ FsAtRest /\ OpAtRest /\ GateAtRest /\ JoinAtRest /\ DocAtRest /\ MrgAtRest /\ AlgAtRest /\ AuthAtRest /\ DeltaAtRest /\ RegAtRest
                 /\ NetAtRest
SpecSched     == InitSpecSched /\ [][NextSched]_vars

SpecRecover   == InitSpecSched /\ [][NextSched]_vars /\ SchedFairness

InitSpecNet == InitNet /\ IdAtRest /\ HubAtRest /\ FsAtRest /\ OpAtRest /\ GateAtRest /\ JoinAtRest /\ DocAtRest /\ MrgAtRest /\ AlgAtRest /\ AuthAtRest /\ DeltaAtRest /\ RegAtRest
               /\ SchedAtRest
SpecNet     == InitSpecNet /\ [][NextNet]_vars /\ NetFairness

(***************************************************************************)
(* Claims                                                                  *)
(***************************************************************************)

\* C3 (signature necessity): whenever the handler of a sync, heartbeat or
\* chat-push request runs, the request carries X-Node-Ts, X-Body-Hash and
\* X-Node-Sig, X-Body-Hash is the sha256 of the body received, the timestamp
\* is within 60 s of the time the request is handled, and the signature
\* verifies under the public key stored for the sender over the canonical
\* message {body_hash, node_id, timestamp}.
C3_SignatureNecessity ==
    accepted.present =>
        LET req == accepted.req
            id  == accepted.verified_id
        IN  /\ req.ts.kind # "missing" /\ req.hash.present /\ req.sig.present
            /\ req.hash = Sha256(req.body)
            /\ req.ts.kind = "num" /\ Abs(accepted.at - req.ts.val) <= MAX_AGE
            /\ id \in DOMAIN authNodes
            /\ req.sig.key = authNodes[id].public_key
            /\ req.sig.msg = SignMessage(id, req.ts, req.hash)

\* C4 (the body names the signer): whenever the handler of a signed request
\* runs, the node_id of the JSON body is the node id whose signature and trust
\* status were verified, so handle_heartbeat updates the state, the record and
\* the task queue of the node that signed.
C4_BodyNamesSigner ==
    accepted.present => accepted.relay_id = accepted.verified_id

\* C10 (nodes merge commutative and associative): for registries x, y, z with
\* records pending, waiting_approval, trusted or kicked, merge_nodes(x, y) =
\* merge_nodes(y, x) and merge_nodes(merge_nodes(x, y), z) =
\* merge_nodes(x, merge_nodes(y, z)), record by record.
C10_MergeNodesCommAssoc ==
    algOut.done => /\ algOut.xy = algOut.yx
                   /\ algOut.xy_z = algOut.x_yz

\* the timestamp a delta filter reads, 0 when the field is missing
NodesNewer(doc, since) ==
    \A k \in DOMAIN doc : Get(doc[k], "registered_at", 0) > since
StatesNewer(doc, since) ==
    \A k \in DOMAIN doc : Get(doc[k], "last_seen", 0) > since
ChatNewer(doc, since) ==
    \A i \in DOMAIN doc : Get(doc[i], "timestamp", 0) > since
SnippetsNewer(doc, since) ==
    \A i \in DOMAIN doc : Get(doc[i], "updated_at", 0) > since
AllNewer(resp, since) ==
    /\ NodesNewer(resp.nodes, since)
    /\ StatesNewer(resp.states, since)
    /\ ChatNewer(resp.chat, since)
    /\ SnippetsNewer(resp.snippets, since)

\* C9 (delta correctness) as stated: for every cursor value, 0 included,
\* every item of a sync or heartbeat response has a timestamp greater than
\* since, a missing timestamp counting as 0.
C9_DeltaCorrectnessAsStated ==
    dOut.done => AllNewer(dOut.resp, dIn.request.since)

\* C9 (delta correctness) as the handlers behave: for a cursor since > 0
\* every node, state, chat message and snippet of the response has a
\* timestamp greater than since; for since <= 0 the response is the whole
\* of the documents the handler has just written, whatever their timestamps.
C9_DeltaCorrectness ==
    dOut.done =>
        IF dIn.request.since > 0
        THEN AllNewer(dOut.resp, dIn.request.since)
        ELSE dOut.resp = dOut.store

\* a response to since > 0 that keeps one item and withholds another
C9_Witness ==
    /\ dOut.done
    /\ dIn.request.since > 0
    /\ dOut.resp # dOut.store
    /\ dOut.resp # EmptyStore

IsKicked(nodes, k) ==
    k \in DOMAIN nodes /\ Get(nodes[k], "trust_status", "") = KICKED

\* every kicked record of the registry is kicked afterwards, kicked_at no less
KickedKept(before, after) ==
    \A k \in DOMAIN before :
        IsKicked(before, k) =>
            /\ IsKicked(after, k)
            /\ Get(after[k], "kicked_at", 0) >= Get(before[k], "kicked_at", 0)

\* C1 (kicked absorbs): a merge of the node registry, in the inbound sync
\* handler or on the response of an outbound sync, active sync or heartbeat,
\* leaves every kicked record kicked and never lowers its kicked_at.
C1_KickedAbsorbs ==
    [][(peer_sync \/ SyncSucceed) => KickedKept(docs.nodes, docs'.nodes)]_vars

\* C2 (self-record stability): in every reachable state the record keyed by
\* the local node id has trust_status self, whatever peers and joiners send.
C2_SelfRecordStable ==
    clock > 0 =>
        /\ LocalId \in DOMAIN docs.nodes
        /\ Get(docs.nodes[LocalId], "trust_status", "") = SELF

TrustRank(info) ==
    CASE Get(info, "trust_status", "") = KICKED -> 3
      [] Get(info, "trust_status", "") \in {TRUSTED, SELF} -> 2
      [] OTHER -> 1

Ids(seq) == {Get(seq[i], "id", "") : i \in DOMAIN seq}

\* what the documents hold before a write is still there after it: no record
\* leaves, no kick or approval is undone, no state goes back in time, no
\* chat message or snippet disappears
Kept(before, after) ==
    /\ \A k \in DOMAIN before.nodes :
          /\ k \in DOMAIN after.nodes
          /\ TrustRank(after.nodes[k]) >= TrustRank(before.nodes[k])
    /\ KickedKept(before.nodes, after.nodes)
    /\ \A k \in DOMAIN before.states :
          /\ k \in DOMAIN after.states
          /\ Get(after.states[k], "last_seen", 0)
                >= Get(before.states[k], "last_seen", 0)
    /\ Ids(before.chat) \subseteq Ids(after.chat)
    /\ Ids(before.snippets) \subseteq Ids(after.snippets)

\* C6 (no lost update across a suspension point): when an outbound exchange
\* writes its merged result back, everything the documents held just before
\* the write, the changes made while the exchange awaited its response
\* included, is still in them.
C6_NoLostUpdate ==
    [][SyncSucceed => Kept(docs, docs')]_vars

\* C8 (cursor monotonicity): the stored last_sync_time of a peer never
\* decreases, and it changes only in the step that ends a successful
\* exchange.
C8_CursorMonotone ==
    [][/\ \A p \in DOMAIN sync_meta :
             get_peer_sync_time(sync_meta', p) >= get_peer_sync_time(sync_meta, p)
       /\ sync_meta' # sync_meta => SyncSucceed]_vars

\* C7 (exactly one main task): at most one main loop is iterating at any
\* time; a loop whose cancellation is requested and not yet delivered is
\* counted out, so that a replacement created just before the old loop
\* exits is not held against the scheduler.
C7_OneMainTask ==
    Cardinality({t \in TaskIds : Iterating(t)}) <= 1

\* a node's registry with its own record seen as its peers see it
AsPeersSee(nodes) ==
    [k \in DOMAIN nodes |->
        IF Get(nodes[k], "trust_status", "") = SELF
        THEN Put(nodes[k], "trust_status", TRUSTED)
        ELSE nodes[k]]

Converged ==
    /\ AsPeersSee(netDocs["a"].nodes) = AsPeersSee(netDocs["b"].nodes)
    /\ netDocs["a"].states = netDocs["b"].states
    /\ netDocs["a"].chat = netDocs["b"].chat
    /\ netDocs["a"].snippets = netDocs["b"].snippets

\* every round that is due gets its exchange answered, again and again
ExchangesKeepSucceeding ==
    \A n \in NetNodes : []<>(n \notin netDue)

\* C5 (convergence): a and b trust each other and neither is kicked; if the
\* exchanges between them keep succeeding then, the local changes and
\* failures having stopped, their four documents become and stay equal.
C5_Convergence ==
    ExchangesKeepSucceeding => <>[]Converged

\* C11: the states, chat and snippets merges are commutative and
\* associative, also for entries of the same key or id whose last_seen,
\* timestamp or updated_at are equal while their content differs.
C11_DocMergesCommAssoc ==
    mrgOut.done => /\ mrgOut.xy = mrgOut.yx
                   /\ mrgOut.xy_z = mrgOut.x_yz

\* C12: merging a persisted document with itself gives the document
\* back, for the chat and snippets documents the writers leave.
C12_MergeIdempotent ==
    /\ merge_nodes(docStore.nodes, docStore.nodes) = docStore.nodes
    /\ merge_states(docStore.states, docStore.states) = docStore.states
    /\ merge_chat(docStore.chat, docStore.chat) = docStore.chat
    /\ merge_snippets(docStore.snippets, docStore.snippets) = docStore.snippets

HoldsTrusted(n, x) ==
    /\ x \in DOMAIN netDocs[n].nodes
    /\ Get(netDocs[n].nodes[x], "trust_status", "") \in {TRUSTED, SELF}

HoldsKicked(n, x) ==
    /\ x \in DOMAIN netDocs[n].nodes
    /\ Get(netDocs[n].nodes[x], "trust_status", "") = KICKED

\* C13 (approval propagation): a and b reach each other over trusted
\* connectable links; if the exchanges between them keep succeeding, a
\* record that is trusted at one of them is eventually trusted (or kicked)
\* at both, whatever cursors they hold and also when the record came to
\* the first of them from a third node.
C13_ApprovalPropagates ==
    ExchangesKeepSucceeding =>
        \A x \in {"c", "d"} :
            (\E n \in NetNodes : HoldsTrusted(n, x))
                ~> (\A n \in NetNodes : HoldsTrusted(n, x) \/ HoldsKicked(n, x))

\* C14 (kick propagation): b's operator kicked c; once a sync exchange
\* with b has left c kicked in a's registry, a rejects every request c
\* signs from then on.
C14_KickStaysLearnt ==
    [][(scenario = "kicked_at_peer" /\ IsKicked(docs.nodes, "c"))
          => ~Verified("c", docs'.nodes, clock')]_vars

\* C15: an inbound heartbeat that passed the signature check never adds a
\* record to the registry: the registry of "a" holds records for "a", "b"
\* and "c" only, none of them made by handle_heartbeat.
C15_NoHeartbeatInsert ==
    DOMAIN authNodes \subseteq {"a", "b", "c"}

SelfKeys(nodes) ==
    {k \in DOMAIN nodes : Get(nodes[k], "trust_status", "") = SELF}

\* C16: in every reachable registry at most one record has trust_status
\* self, and its key is the local node id: after self-registration, merges,
\* join requests, joins (the trusted fast path included) and the adoption
\* of the snapshot of join-status.
C16_OneSelfRecord ==
    SelfKeys(joinNodes) \subseteq {LocalId}

\* the poll adopted a snapshot that held b's own self record and d, and
\* the registry holds them as trusted beside its own self record
C16_Witness ==
    /\ joinPoll.status = "trusted"
    /\ SelfKeys(joinNodes) = {LocalId}
    /\ {"b", "d"} \subseteq DOMAIN joinNodes
    /\ Get(joinNodes["b"], "trust_status", "") = TRUSTED

\* the ways C17 lists for a request to fail verification at a node that
\* holds nodes and reads the time now
FailsVerification(req, nodes, now) ==
    LET sender == remote_node_id(req)
    IN  \/ req.ts.kind = "missing" \/ ~req.hash.present \/ ~req.sig.present
        \/ req.hash # Sha256(req.body)
        \/ TooOld(now, req.ts)
        \/ sender \notin DOMAIN nodes
        \/ nodes[sender].trust_status \in {KICKED, PENDING, WAITING_APPROVAL}
        \/ req.sig # Signature(nodes[sender].public_key,
                               SignMessage(sender, req.ts, req.hash))

NoDuplicateIds(chat) ==
    \A i, j \in DOMAIN chat :
        Get(chat[i], "id", "") = Get(chat[j], "id", "") => i = j

\* C18: whatever local sends, chat pushes (repeated ones too), sync merges
\* and heartbeat-response merges a node goes through, its chat document
\* holds every message id at most once, and a message it received stays in
\* the document, once, unless the cap of 500 evicted it.
C18_ChatIdsOnce ==
    [][/\ NoDuplicateIds(docs'.chat)
       /\ \/ Ids(docs.chat) \subseteq Ids(docs'.chat)
          \/ Len(docs'.chat) = max_messages]_vars

Stamp(m) == Get(m, "timestamp", 0)

\* merged holds, of the messages of local and remote taken once per id,
\* the max_messages with the greatest timestamps, or all when they are fewer
KeepsGreatest(local, remote, merged) ==
    LET all     == local \o remote
        ids     == Ids(all) \ {""}
        kept    == Ids(merged)
        First(d) == CHOOSE j \in DOMAIN all :
                       /\ Get(all[j], "id", "") = d
                       /\ \A k \in 1..(j - 1) : Get(all[k], "id", "") # d
        least   == IF merged = <<>> THEN 0
                   ELSE CHOOSE t \in {Stamp(merged[i]) : i \in DOMAIN merged} :
                           \A i \in DOMAIN merged : t <= Stamp(merged[i])
    IN  /\ Len(merged) = IF Cardinality(ids) < max_messages
                         THEN Cardinality(ids) ELSE max_messages
        /\ Cardinality(kept) = Len(merged)
        /\ kept \subseteq ids
        /\ {merged[i] : i \in DOMAIN merged} \subseteq {all[j] : j \in DOMAIN all}
        /\ \A d \in ids \ kept : Stamp(all[First(d)]) <= least

\* C19 (chat cap): after a local send, an inbound chat push or a merge the
\* chat document holds at most 500 messages, and what a merge leaves is the
\* 500 messages with the greatest timestamps among those of its two inputs
\* taken once per id.
C19_ChatCap ==
    [][/\ Len(docStore'.chat) <= max_messages
       /\ docReq'.present =>
             KeepsGreatest(docStore.chat, docReq'.data.chat, docStore'.chat)]_vars

\* a merge at the cap took in a newer message of the peer and dropped the
\* oldest one of the node
C19_Witness ==
    /\ docReq.present
    /\ Len(docStore.chat) = max_messages
    /\ "r1" \in Ids(docStore.chat)
    /\ "1" \notin Ids(docStore.chat)

\* the entry of snippets that is the tombstone of snippet_id, stamped T or later
HoldsTombstone(snippets, snippet_id, T) ==
    \E i \in DOMAIN snippets :
        /\ Get(snippets[i], "id", "") = snippet_id
        /\ Get(snippets[i], "_deleted", FALSE)
        /\ Get(snippets[i], "updated_at", 0) >= T

\* C20 (tombstone durability): a node that holds the tombstone of a snippet
\* with updated_at = T holds it after every later step, whichever older
\* copies of the snippet the merges of that step take in, and GET /snippets/
\* does not show the snippet.  In these runs every copy that is not a
\* tombstone has updated_at = 1 and the tombstone has T = 2.
C20_TombstoneStays ==
    [][\A i \in DOMAIN docs.snippets :
          Get(docs.snippets[i], "_deleted", FALSE) =>
             /\ HoldsTombstone(docs'.snippets, Get(docs.snippets[i], "id", ""),
                               Get(docs.snippets[i], "updated_at", 0))
             /\ Get(docs.snippets[i], "id", "") \notin list_snippets(docs'.snippets)]_vars

\* the step handled a call of the named endpoint
OpHandled(call) == opLast'.seq = opLast.seq + 1 /\ opLast'.call = call

\* C21 (approve): approve applied to a pending record makes it trusted with
\* registered_at = now; applied to the self record, to an id without a
\* record, or to a record that is trusted, kicked or waiting_approval it is
\* rejected and the registry stays as it was.
C21_ApproveOnlyPending ==
    [][OpHandled("approve") =>
          LET n      == opLast'.node
              id     == opLast'.node_id
              before == opNodes[n]
              after  == opNodes'[n]
          IN  IF /\ id # n
                 /\ id \in DOMAIN before
                 /\ before[id].trust_status = PENDING
              THEN /\ opLast'.status = "success"
                   /\ after = [before EXCEPT
                                 ![id] = [@ EXCEPT !.trust_status = TRUSTED,
                                                   !.registered_at = opNow]]
              ELSE /\ opLast'.status # "success"
                   /\ after = before]_vars

\* C22 (kick): kick applied to a trusted record makes it kicked with
\* kicked_at = now and registered_at = now; applied to the self record or to
\* an id without a record it is rejected and the registry stays as it was;
\* applied to a kicked record it changes neither kicked_at nor registered_at.
C22_KickOutcome ==
    [][OpHandled("kick") =>
          LET n      == opLast'.node
              id     == opLast'.node_id
              before == opNodes[n]
              after  == opNodes'[n]
          IN  IF id = n \/ id \notin DOMAIN before
              THEN opLast'.status # "success" /\ after = before
              ELSE IF before[id].trust_status = KICKED
                   THEN /\ after[id].kicked_at = before[id].kicked_at
                        /\ after[id].registered_at = before[id].registered_at
                        /\ after = before
              ELSE IF before[id].trust_status = TRUSTED
                   THEN /\ opLast'.status = "success"
                        /\ after = [before EXCEPT
                                      ![id] = Put([@ EXCEPT !.trust_status = KICKED,
                                                            !.registered_at = opNow],
                                                  "kicked_at", opNow)]
              ELSE TRUE]_vars

\* the trusted record of b was kicked, and a later kick of b left its stamps
C22_Witness ==
    /\ opLast.call = "kick"
    /\ opLast.node_id = "b"
    /\ opLast.status = "already"
    /\ opNodes["a"]["b"].trust_status = KICKED
    /\ opNodes["a"]["b"].kicked_at < opLast.at
    /\ opNodes["a"]["b"].registered_at = opNodes["a"]["b"].kicked_at

\* C23 (concurrent approvals): a and b each approved the pending record of c,
\* at times t1 and t2.  Whichever of them then takes in the other's registry
\* holds c trusted with registered_at = max(t1, t2), so after a merge in
\* each direction, in either order, both hold that record.
C23_ConcurrentApprovals ==
    [][(/\ OpHandled("merge")
        /\ \A n \in OpRunners : opNodes[n]["c"].trust_status = TRUSTED)
       => LET n  == opLast'.node
              m  == opLast'.node_id
              t1 == opNodes[n]["c"].registered_at
              t2 == opNodes[m]["c"].registered_at
          IN  /\ opNodes'[n]["c"].trust_status = TRUSTED
              /\ opNodes'[n]["c"].registered_at = IF t1 > t2 THEN t1 ELSE t2
              /\ opNodes'[m] = opNodes[m]]_vars

\* approvals at two different times, then a merge in each direction: both
\* registries hold c trusted with the later stamp
C23_Witness ==
    /\ opLast.seq = MaxOpCalls
    /\ opLast.call = "merge"
    /\ opNow = 2
    /\ \A n \in OpRunners :
          /\ opNodes[n]["c"].trust_status = TRUSTED
          /\ opNodes[n]["c"].registered_at = 2

\* a loop finished a round in this step
RoundDone(kind) ==
    /\ last_round'.kind = kind
    /\ <<heartbeat_failures, mode, last_round>>' #
          <<heartbeat_failures, mode, last_round>>

\* the peers a round contacted are the discovered ones up to the first that
\* accepts, and no peer after it
StopsAtFirstAccept(r) ==
    /\ Len(r.sent) <= Len(r.peers)
    /\ r.sent = SubSeq(r.peers, 1, Len(r.sent))
    /\ \A i \in DOMAIN r.sent : i < Len(r.sent) => r.sent[i] \notin r.accepts
    /\ Len(r.sent) < Len(r.peers) => r.sent[Len(r.sent)] \in r.accepts

\* the counter reaches max_failures in this step: the round adds the last
\* failure and _handle_all_peers_failure sets the counter back to 0
ReachesMax ==
    /\ last_round'.peers # <<>>
    /\ ~last_round'.any_success
    /\ heartbeat_failures + 1 = max_failures

\* C24 (failover threshold): a heartbeat round contacts the discovered
\* peers in turn and stops at the first that accepts; a round with a
\* success sets the failure counter to 0; a round whose discovered peers
\* all failed adds 1 to it, and when that makes max_failures the failover
\* runs and sets it back to 0; the mode of a relay becomes temp_full in the
\* step in which the counter reaches max_failures, and in no other step.
C24_FailoverThreshold ==
    [][/\ RoundDone("heartbeat") =>
             /\ StopsAtFirstAccept(last_round')
             /\ last_round'.any_success => heartbeat_failures' = 0
             /\ (last_round'.peers # <<>> /\ ~last_round'.any_success) =>
                   heartbeat_failures' =
                      IF heartbeat_failures + 1 < max_failures
                      THEN heartbeat_failures + 1 ELSE 0
             /\ (mode = "relay" /\ ReachesMax) => mode' = "temp_full"
       /\ (mode # "temp_full" /\ mode' = "temp_full") =>
             /\ mode = "relay"
             /\ last_round'.kind \in {"heartbeat", "active"}
             /\ ReachesMax]_vars

\* a relay whose third heartbeat round in a row failed with both hubs
\* discovered: promoted, the counter back at 0
C24_Witness ==
    /\ mode = "temp_full"
    /\ heartbeat_failures = 0
    /\ last_round.kind = "heartbeat"
    /\ last_round.sent = SchedPeers
    /\ ~last_round.any_success

\* the main loops that are running
MainLoops == {t \in TaskIds : Iterating(t)}

\* the node is a relay again, in memory and in its own record, and one
\* heartbeat loop is the only main loop running
Recovered ==
    /\ mode = "relay"
    /\ self_record_mode = "relay"
    /\ \E t \in TaskIds :
          /\ MainLoops = {t}
          /\ tasks[t].kind = "heartbeat"

\* the tasks still to be created while the node stays temp_full: the loop
\* of the failover that is under way, the loop of every restart_sync that
\* has not finished, and the heartbeat loop of the recovery
OwedTasks ==
    Cardinality({t \in TaskIds : tasks[t].status = "live" /\ tasks[t].pc = "failover"})
    + Cardinality({c \in DOMAIN restarts : restarts[c].pc # "done"})
    + 1

\* failover has made the relay temp_full, and the tasks of the model
\* suffice for the recovery
Promoted ==
    /\ mode = "temp_full"
    /\ Cardinality({t \in TaskIds : tasks[t].status = "unborn"}) >= OwedTasks

\* C25 (recovery): once failover has made a relay temp_full and a trusted
\* connectable peer answers the handshake of the recovery watcher from then
\* on, the node is eventually a relay again, its own record says relay, and
\* the heartbeat loop is the one main loop that is running.
C25_Recovery ==
    Promoted ~> Recovered

\* the records of a registry that discovery is said to return
SaidDiscovered(nodes, self_id) ==
    {k \in DOMAIN nodes :
        /\ Get(nodes[k], "mode", "") \in {"full", "temp_full"}
        /\ Get(nodes[k], "connectable", FALSE) = TRUE
        /\ Get(nodes[k], "trust_status", "") = TRUSTED
        /\ Get(nodes[k], "node_id", "") # self_id}

\* every record a round selected was trusted in the registry it was read from
SelectedTrusted ==
    \A k \in DOMAIN opLast'.nodes :
       /\ k \in DOMAIN opNodes[opLast'.node]
       /\ opNodes[opLast'.node][k].trust_status = TRUSTED

TrustOf(nodes, id) ==
    IF id \in DOMAIN nodes THEN Get(nodes[id], "trust_status", "") ELSE "absent"

\* the records of a registry that are trusted or its own
TrustedSnapshot(nodes) ==
    [k \in {j \in DOMAIN nodes : TrustOf(nodes, j) \in {TRUSTED, SELF}} |-> nodes[k]]

\* C27 (join-request outcomes): a join-request that names X and a public
\* key creates, when X has no record, a pending record with that key and
\* is answered pending; for a kicked X it is answered 403 "kicked" and for
\* a trusted X "trusted" with the snapshot of the trusted records, the
\* record of X unchanged in both cases; no join-request leaves a trusted
\* record behind that was not trusted before.
C27_JoinRequestOutcome ==
    [][OpHandled("join-request") =>
          LET before == opNodes[opLast'.node]
              after  == opNodes'[opLast'.node]
              X      == opLast'.node_id
          IN  /\ opLast'.public_key # "" =>
                    /\ TrustOf(before, X) = "absent" =>
                          /\ TrustOf(after, X) = PENDING
                          /\ after[X].public_key = opLast'.public_key
                          /\ opLast'.code = 200
                          /\ opLast'.status = "pending"
                    /\ TrustOf(before, X) = KICKED =>
                          /\ opLast'.code = 403
                          /\ opLast'.status = "kicked"
                          /\ after = before
                    /\ TrustOf(before, X) = TRUSTED =>
                          /\ opLast'.code = 200
                          /\ opLast'.status = "trusted"
                          /\ opLast'.nodes = TrustedSnapshot(before)
                          /\ after = before
              /\ \A k \in DOMAIN after :
                    TrustOf(after, k) = TRUSTED => TrustOf(before, k) = TRUSTED]_vars

\* node a has answered the join-request of d, which it did not know, and
\* holds it as pending with the key of the request
C27_Witness ==
    /\ opLast.call = "join-request"
    /\ opLast.node = "a"
    /\ opLast.node_id = "d"
    /\ opLast.status = "pending"
    /\ TrustOf(opNodes["a"], "d") = PENDING
    /\ opNodes["a"]["d"].public_key = "kx"
    /\ opNodes["a"]["d"].registered_at = opLast.at

\* the answer of join-status gives nothing away: neither the status of the
\* node nor a snapshot
RevealsNothing ==
    /\ opLast'.status \notin {TRUSTED, PENDING, WAITING_APPROVAL, KICKED, SELF}
    /\ opLast'.nodes = EmptyDoc

\* C28 (join-status key match): a join-status request for a node the
\* registry holds is told the status of the node, and the snapshot of the
\* trusted records when it is trusted, only if the public_key of the query
\* equals the public_key of the record; with another key, or with none,
\* the answer gives neither.
C28_JoinStatusKeyMatch ==
    [][OpHandled("join-status") =>
          LET nodes == opNodes[opLast'.node]
              X     == opLast'.node_id
          IN  (X \in DOMAIN nodes /\ opLast'.public_key # nodes[X].public_key)
                 => RevealsNothing]_vars

\* the poll loop of a got an answer, or an error, in this step
Polled == joinPeer'.tick # joinPeer.tick

\* the snapshot entries a poll adopts: those of other nodes that a does not
\* hold or holds as waiting_approval
Adopted(before, snapshot) ==
    {k \in DOMAIN snapshot \ {LocalId} :
        TrustOf(before, k) \in {"absent", WAITING_APPROVAL}}

\* what each answer does to the registry and the join state of a
PollOutcome ==
    LET data   == joinPeer'.answer
        before == joinNodes
        after  == joinNodes'
        target == joinPoll.target_id
        taken  == Adopted(before, data.nodes)
    IN  /\ joinPoll.status = "polling"
        /\ data.status = "trusted" =>
              /\ DOMAIN after = DOMAIN before \cup taken
              /\ \A k \in taken :
                    after[k] = [data.nodes[k] EXCEPT !.trust_status = TRUSTED]
              /\ \A k \in DOMAIN before \ (taken \cup {target}) :
                    after[k] = before[k]
              /\ target \in DOMAIN after
              /\ after[target].trust_status = TRUSTED
              /\ joinPoll'.status = "trusted"
        /\ data.status = "kicked" =>
              /\ joinPoll'.status = "kicked"
              /\ after = before
        /\ data.status \notin {"trusted", "kicked"} =>
              /\ after = before
              /\ joinPoll' = joinPoll

\* b holds a as trusted: its operator has approved a
Approved == TrustOf(joinPeer.nodes, LocalId) = TRUSTED

\* C29 (join poll outcome): while the join state is polling, the answer
\* trusted makes a store every snapshot entry it does not hold or holds as
\* waiting_approval as trusted, makes its record of the target trusted,
\* sets the join state to trusted and ends the polling; the answer kicked
\* sets the join state to kicked, ends the polling and leaves the registry
\* as it is; any other answer and any error leave the registry and the join
\* state as they are.  And once the operator of the target has approved a
\* and a is polling, a's record of the target becomes trusted, unless the
\* approval is taken back.
C29_JoinPollOutcome ==
    /\ [][Polled => PollOutcome]_vars
    /\ (joinPoll.status = "polling" /\ Approved)
          ~> (TrustOf(joinNodes, "b") = TRUSTED \/ ~Approved)

\* a polled b after the approval: it holds b as trusted, has adopted
\* nothing for d, which it had kicked and the snapshot offered, and the
\* polling is over
C29_Witness ==
    /\ joinPeer.answer.status = "trusted"
    /\ "d" \in DOMAIN joinPeer.answer.nodes
    /\ joinPoll = [status |-> "trusted", target_id |-> "b"]
    /\ TrustOf(joinNodes, "b") = TRUSTED
    /\ TrustOf(joinNodes, "d") = KICKED

\* the calls made on a file
CallsOn(name) == {t \in Threads : fsCalls[t].name = name}

\* the orders in which the calls of a set can be made one after the other
Orders(S) ==
    {order \in [1 .. Cardinality(S) -> S] :
        \A i, j \in DOMAIN order : i # j => order[i] # order[j]}

\* the file after the first i calls of an order, made one after the other
RECURSIVE ValueAfter(_, _)
ValueAfter(order, i) ==
    IF i = 0 THEN <<>>
    ELSE IF fsCalls[order[i]].kind = "update"
         THEN updater(order[i], ValueAfter(order, i - 1))
         ELSE written_value(order[i])

\* the file and what every update returned are those of the calls made in
\* some order, one after the other
Linearizable(name) ==
    \E order \in Orders(CallsOn(name)) :
       /\ fsStore.files[name] = ValueAfter(order, Len(order))
       /\ \A i \in DOMAIN order :
             fsCalls[order[i]].kind = "update" =>
                fsCalls[order[i]].ret = ValueAfter(order, i)

\* a call waits for the lock of its file only while a call on the same
\* file holds it, and _global_lock is held by a call that is inside
\* _get_lock and by no call that reads or writes a file
NeverBlockedByOtherName ==
    /\ \A t \in Threads :
          (fsCalls[t].pc = "wait" /\ fsStore.locks[fsCalls[t].lock] # 0) =>
             fsCalls[fsStore.locks[fsCalls[t].lock]].name = fsCalls[t].name
    /\ fsStore.global # 0 => fsCalls[fsStore.global].pc = "lookup"

IdCalled(call) ==
    /\ idn'.calls = idn.calls + 1
    /\ idn'.call = call

\* C31 (mode switch round trip): on a node that is not full, a promote
\* makes the mode temp_full, also when it follows another promote, and the
\* demote after it makes the mode relay again; after each call the mode of
\* the node's own record is the mode in memory and its registered_at has
\* not gone down; a promote on a full node changes nothing.
C31_ModeRoundTrip ==
    [][/\ (IdCalled("promote") /\ idn.mode # "full") => idn'.mode = "temp_full"
       /\ (IdCalled("promote") /\ idn.mode = "full") =>
             /\ idn'.mode = "full"
             /\ idn'.nodes = idn.nodes
       /\ (IdCalled("demote") /\ idn.mode = "temp_full") => idn'.mode = "relay"
       /\ (IdCalled("promote") \/ IdCalled("demote")) =>
             /\ idn'.nodes[LocalId].mode = idn'.mode
             /\ idn'.nodes[LocalId].registered_at >= idn.nodes[LocalId].registered_at
      ]_vars

\* the states document with the status of one node left out of account
BesidesStatusOf(states, node_id) ==
    [k \in DOMAIN states |->
        IF k = node_id THEN Put(states[k], "status", "") ELSE states[k]]

\* what the failure of the exchange under way on a path leaves behind
FailureLeaves(via) ==
    LET P == exch[via].peer_id
    IN  /\ docs'.nodes = docs.nodes
        /\ docs'.chat = docs.chat
        /\ docs'.snippets = docs.snippets
        /\ sync_meta' = sync_meta
        /\ BesidesStatusOf(docs'.states, P) = BesidesStatusOf(docs.states, P)
        /\ docs'.states # docs.states =>
              /\ exch[via].kind = "sync"
              /\ docs'.states[P].status = "offline"
        /\ exch'[via].phase = "idle"

\* C32 (transient failure): when an outbound sync, active sync or heartbeat
\* exchange with peer P fails, the nodes, chat and snippets documents and
\* the cursors are as before; states differs at most in that P is offline,
\* its last_seen as before, and only after a gossip exchange; the path is
\* idle again, so that the loop makes its next round.
C32_FailureLeavesState ==
    [][\A via \in Vias :
          (/\ exch[via].phase = "awaiting"
           /\ exch'[via].phase = "idle"
           /\ SyncFail) => FailureLeaves(via)]_vars

\* a gossip exchange with b has failed: b is marked offline with the
\* last_seen it had, no cursor was stored, no exchange is under way
C32_Witness ==
    /\ "b" \in DOMAIN docs.states
    /\ docs.states["b"].status = "offline"
    /\ docs.states["b"].last_seen > 0
    /\ get_peer_sync_time(sync_meta, "b") = 0
    /\ identity.mode = "full" /\ identity.connectable
    /\ \A via \in Vias : exch[via].phase = "idle"

\* the one key of the drawn registries, as the local and the remote registry
\* hold it and as the merge stored it
TrustKey == CHOOSE k \in AlgKeys : TRUE
BothHold == algOut.done /\ TrustKey \in DOMAIN algIn.x /\ TrustKey \in DOMAIN algIn.y
LocalTrust  == Get(algIn.x[TrustKey], "trust_status", "")
RemoteTrust == Get(algIn.y[TrustKey], "trust_status", "")
MergedTrust == Get(algOut.xy[TrustKey], "trust_status", "")

\* C33 (merge never downgrades trusted): when the local record for a key is
\* trusted, the record _merge_nodes stores for it is trusted or kicked, and
\* kicked only when the remote record is kicked, whatever trust_status and
\* registered_at the remote record has.
C33_TrustedNeverDowngraded ==
    (BothHold /\ LocalTrust = TRUSTED)
        => /\ MergedTrust \in {TRUSTED, KICKED}
           /\ MergedTrust = KICKED => RemoteTrust = KICKED

\* a newer pending remote record was adopted over a trusted local one, and the
\* stored record is the remote one with the local trust status
C33_Witness ==
    /\ BothHold
    /\ LocalTrust = TRUSTED
    /\ RemoteTrust = PENDING
    /\ algIn.y[TrustKey].registered_at > algIn.x[TrustKey].registered_at
    /\ algOut.xy[TrustKey].name = algIn.y[TrustKey].name
    /\ algIn.y[TrustKey].name # algIn.x[TrustKey].name
    /\ MergedTrust = TRUSTED

\* C34 (remote self becomes trusted): after merging a remote record whose
\* trust_status is self, the record stored for that key is never self, and it
\* is trusted when the key was absent locally or held a pending or
\* waiting_approval record.
C34_RemoteSelfBecomesTrusted ==
    (algOut.done /\ TrustKey \in DOMAIN algIn.y /\ RemoteTrust = SELF)
        => /\ (TrustKey \in DOMAIN algIn.x /\ LocalTrust = SELF)
                \/ Get(algOut.xy[TrustKey], "trust_status", "") # SELF
           /\ TrustKey \notin DOMAIN algIn.x
                => Get(algOut.xy[TrustKey], "trust_status", "") = TRUSTED
           /\ (TrustKey \in DOMAIN algIn.x
                /\ LocalTrust \in {PENDING, WAITING_APPROVAL})
                => Get(algOut.xy[TrustKey], "trust_status", "") = TRUSTED
\* every item of data is in the documents
Holds(documents, data) ==
    /\ DOMAIN data.nodes \subseteq DOMAIN documents.nodes
    /\ DOMAIN data.states \subseteq DOMAIN documents.states
    /\ Ids(data.chat) \subseteq Ids(documents.chat)
    /\ Ids(data.snippets) \subseteq Ids(documents.snippets)

BothSucceeded ==
    /\ scenario = "gossip"
    /\ \A p \in GossipPeers :
          /\ exch[p].phase = "done"
          /\ get_peer_sync_time(sync_meta, p) = exch[p].sync_start

\* C35 (concurrent exchanges of one round): when the sync exchanges of one
\* gossip round with the two selected peers have both succeeded and both
\* cursors are advanced, the nodes, states, chat and snippets documents hold
\* the items returned by the one peer and the items returned by the other.
C35_RoundKeepsBothMerges ==
    BothSucceeded => \A p \in GossipPeers : Holds(docs, exch[p].data)
\* b holds an item that came from c stamped 1, a lacks it, and b's cursor for
\* a is not before the item's stamp
LearntLate(kind) ==
    /\ get_peer_sync_time(netMeta["b"], "a") >= 1
    /\ IF kind = "chat"
       THEN "c" \in Ids(netDocs["b"].chat) \ Ids(netDocs["a"].chat)
       ELSE "d" \in DOMAIN netDocs["b"].nodes \ DOMAIN netDocs["a"].nodes

DeliveredTo(n, kind) ==
    IF kind = "chat" THEN "c" \in Ids(netDocs[n].chat)
                     ELSE "d" \in DOMAIN netDocs[n].nodes

\* C36 (late items are still delivered): a chat message or node record that
\* b first learns from c, after b's cursor for a has passed the item's own
\* timestamp, reaches a in some later exchange between a and b, provided
\* their exchanges keep succeeding.
C36_LateItemDelivered ==
    ExchangesKeepSucceeding =>
        \A kind \in {"chat", "nodes"} : LearntLate(kind) ~> DeliveredTo("a", kind)
\* C37 (broadcast at most once): over the sync, heartbeat and chat-push
\* requests a node serves, repeated pushes of a stored id included, the
\* messages handed to the chat hub for a connected subscriber name every
\* message id at most once.
C37_BroadcastOnce ==
    NoDuplicateIds(gateStore.broadcast)
\* C38 (broadcast under a changing subscriber set): when a broadcast has
\* returned, every socket that was in the list from the moment the broadcast
\* began until it returned has been sent the message, whatever sockets were
\* added or removed while the broadcast awaited a send.
C38_BroadcastReachesAll ==
    \A b \in HubCalls :
        chatHub.calls[b].pc = "done"
            => chatHub.calls[b].stayed \subseteq chatHub.calls[b].sent
KickedIn(nodes) ==
    {k \in DOMAIN nodes : Get(nodes[k], "trust_status", "") = KICKED}

\* C39 (join adoption spares kicked records): whatever the join flow stores,
\* the snapshot of the trusted fast path of join, the snapshot the join poll
\* adopts and the target's record turned trusted, a record that is kicked in
\* the local registry before the step is kicked with the same kicked_at after
\* it.
C39_JoinKeepsKicked ==
    [][\A k \in KickedIn(joinNodes) :
          /\ k \in KickedIn(joinNodes')
          /\ Get(joinNodes'[k], "kicked_at", 0) = Get(joinNodes[k], "kicked_at", 0)]_vars
\* C40 (join-request cannot replace a stored key): a join-request that
\* names a node id the registry already has a record for, whatever the trust
\* status of the record, a waiting_approval join target included, leaves the
\* public_key of that record as it was.
C40_JoinRequestKeepsKey ==
    [][OpHandled("join-request") =>
          LET before == opNodes[opLast'.node]
              after  == opNodes'[opLast'.node]
              X      == opLast'.node_id
          IN  X \in DOMAIN before =>
                 /\ X \in DOMAIN after
                 /\ Get(after[X], "public_key", "") = Get(before[X], "public_key", "")]_vars
====
